---- MODULE Spec2Model ----
(***************************************************************************)
(* Model of op::Wrapper (include/openpose/wrapper/wrapper.hpp): the        *)
(* configuration of the workers, the construction of the thread manager's  *)
(* graph in configureThreadManager, the lifecycle (start, exec, stop) and   *)
(* the boundary operations on the first and last queue.                     *)
(*                                                                         *)
(* wrapper.hpp is modelled line by line.  ThreadManager, Queue,             *)
(* WIdGenerator and WQueueOrderer live in ../thread and ../core, which are  *)
(* not part of the sources at hand: they are modelled from the design       *)
(* document (sections 3 to 5) and from the doc comments of wrapper.hpp.     *)
(***************************************************************************)
EXTENDS Integers, Sequences, FiniteSets, TLC

\* ------------------------------------------------------------ bounds
\* Largest wrapperStructPose.gpuNumber passed to configure().
MaxGpu == 2
\* Number of work items that enter a pipeline during one run.
MaxItems == 3
\* Largest capacity of the bounded queues.
MaxCap == 2
\* Number of work items that enter a pipeline during one run of SpecOrder:
\* two more than the largest pose group has replicas.
MaxBurst == MaxGpu + 2

\* ------------------------------------------------------------ values
NULL == "nullptr"
UNINIT == "uninitialized"
NoError == "none"

Modes == {"Synchronous", "Asynchronous", "AsynchronousIn", "AsynchronousOut"}

\* The modes in which the first queue is fed by the application.
IsAsyncIn(mode) == mode \in {"Asynchronous", "AsynchronousIn"}
\* The modes in which the last queue is drained by the application.
IsAsyncOut(mode) == mode \in {"Asynchronous", "AsynchronousOut"}

WriteOptions == {"writeImages", "writeVideo", "writePose", "writePoseJson",
                 "writeCocoJson", "writeHeatMaps"}

\* mThreadId is an unsigned int: 0 - 1 wraps to the largest value, and the
\* largest value + 1 wraps to 0.  TLC's integers are 32-bit signed, so the
\* largest unsigned value (2^32 - 1) is represented by the largest integer
\* TLC has; no thread id in between is ever reached.
UIntMax == 2147483647

UIntInc(x) == IF x = UIntMax THEN 0 ELSE x + 1
UIntDec(x) == IF x = 0 THEN UIntMax ELSE x - 1

\* ------------------------------------------------------------ helpers
RECURSIVE SeqOfN(_, _)
SeqOfN(x, n) == IF n = 0 THEN <<>> ELSE <<x>> \o SeqOfN(x, n - 1)

Last(s) == s[Len(s)]

\* std::vector concatenation (Wrapper::mergeWorkers).
mergeWorkers(workersA, workersB) == workersA \o workersB

\* ------------------------------------------------------------ Wrapper
\* The state of a Wrapper after its constructor: only mMultiThreadEnabled
\* and the mode are initialised; the vectors and shared pointers are empty.
\* renderers stands for the Renderer objects that the workers of spWPoses
\* hold, one list per replica.
Wrapper(threadManagerMode) ==
    [mThreadManagerMode |-> threadManagerMode,
     mMultiThreadEnabled |-> TRUE,
     mGpuNumber |-> UNINIT,
     mUserInputWsOnNewThread |-> UNINIT,
     mUserPostProcessingWsOnNewThread |-> UNINIT,
     mUserOutputWsOnNewThread |-> UNINIT,
     mThreadId |-> UNINIT,
     mUserInputWs |-> <<>>,
     wDatumProducer |-> NULL,
     spWIdGenerator |-> NULL,
     spWCvMatToOpInput |-> NULL,
     spWCvMatToOpOutput |-> NULL,
     spWPoses |-> <<>>,
     renderers |-> <<>>,
     mPostProcessingWs |-> <<>>,
     mUserPostProcessingWs |-> <<>>,
     mOutputWs |-> <<>>,
     spWGui |-> NULL,
     mUserOutputWs |-> <<>>]

disableMultiThreading(w) == [w EXCEPT !.mMultiThreadEnabled = FALSE]

\* setWorkerInput had it not cleared mUserInputWs first (line 323).
setWorkerInputAppending(w, worker, workerOnNewThread) ==
    IF worker = NULL
    THEN [w |-> w, err |-> "NullWorker"]
    ELSE [w |-> [w EXCEPT !.mUserInputWs = Append(@, worker),
                          !.mUserInputWsOnNewThread = workerOnNewThread],
          err |-> NoError]

\* Each setter clears its vector first, throws on a null worker (leaving
\* the vector empty) and otherwise stores the worker and the flag.
setWorkerInput(w, worker, workerOnNewThread) ==
    IF worker = NULL
    THEN [w |-> [w EXCEPT !.mUserInputWs = <<>>], err |-> "NullWorker"]
    ELSE [w |-> [w EXCEPT !.mUserInputWs = <<worker>>,
                          !.mUserInputWsOnNewThread = workerOnNewThread],
          err |-> NoError]

setWorkerPostProcessing(w, worker, workerOnNewThread) ==
    IF worker = NULL
    THEN [w |-> [w EXCEPT !.mUserPostProcessingWs = <<>>], err |-> "NullWorker"]
    ELSE [w |-> [w EXCEPT !.mUserPostProcessingWs = <<worker>>,
                          !.mUserPostProcessingWsOnNewThread = workerOnNewThread],
          err |-> NoError]

setWorkerOutput(w, worker, workerOnNewThread) ==
    IF worker = NULL
    THEN [w |-> [w EXCEPT !.mUserOutputWs = <<>>], err |-> "NullWorker"]
    ELSE [w |-> [w EXCEPT !.mUserOutputWs = <<worker>>,
                          !.mUserOutputWsOnNewThread = workerOnNewThread],
          err |-> NoError]

\* ---------------------------------------------------------- configure
\* The arguments of configure() that decide which workers are built.  The
\* numeric arguments (alphaPose, alphaHeatMap, scaleGap, outputSize) and the
\* heat map types are taken to be valid, so their checks never throw.
ConfigureArgs ==
    [producerSharedPtr : BOOLEAN,
     gpuNumber : 0..MaxGpu,
     renderOutput : BOOLEAN,
     extractAndRenderFace : BOOLEAN,
     extractAndRenderHands : BOOLEAN,
     rescalePose : BOOLEAN,
     write : SUBSET WriteOptions,
     displayGui : BOOLEAN,
     guiVerbose : BOOLEAN,
     framesRepeat : BOOLEAN]

savingSomething(args) == args.write # {}

\* The contradictory-flag checks at the head of configure(), in order; the
\* first one that fails is the exception configure() throws.
configureError(w, args) ==
    IF ~args.renderOutput /\ ({"writeImages", "writeVideo"} \cap args.write # {})
    THEN "RenderRequiredToSaveFrames"
    ELSE IF /\ w.mUserOutputWs = <<>>
            /\ ~IsAsyncOut(w.mThreadManagerMode)
            /\ ~args.displayGui /\ ~savingSomething(args)
    THEN "NoOutputGenerated"
    ELSE IF /\ w.mUserOutputWs = <<>>
            /\ ~IsAsyncOut(w.mThreadManagerMode)
            /\ args.displayGui /\ args.guiVerbose /\ ~args.renderOutput
    THEN "NoRenderForDisplay"
    ELSE IF /\ w.mUserOutputWs = <<>>
            /\ ~IsAsyncOut(w.mThreadManagerMode)
            /\ args.framesRepeat /\ savingSomething(args)
    THEN "FramesRepeatWhileWriting"
    ELSE IF "writeVideo" \in args.write /\ ~args.producerSharedPtr
    THEN "VideoNeedsProducer"
    ELSE NoError

\* One replica of the pose stage: extractor, then the optional face and
\* hand extractors, then the renderers (pose, hands, face).
poseWorkers(args) ==
    <<"WPoseExtractor">>
    \o (IF args.extractAndRenderFace THEN <<"WFaceExtractor">> ELSE <<>>)
    \o (IF args.extractAndRenderHands THEN <<"WHandExtractor">> ELSE <<>>)
    \o (IF args.renderOutput THEN <<"WPoseRenderer">> ELSE <<>>)
    \o (IF args.extractAndRenderHands THEN <<"WHandRenderer">> ELSE <<>>)
    \o (IF args.extractAndRenderFace THEN <<"WFaceRenderer">> ELSE <<>>)

\* spWPoses: one worker list per GPU.
buildPoses(args) == SeqOfN(poseWorkers(args), args.gpuNumber)

\* isLastRenderer of the hand renderer had line 610 passed true whatever
\* the face flag (C23 depends on it).
handIsLastRendererAlways(args) == TRUE

\* isLastRenderer of the hand renderer: !extractAndRenderFace.
handIsLastRenderer(args) == ~args.extractAndRenderFace

\* The Renderer objects held by the workers of one replica, in the order
\* configure() constructs them.  gpuMemory tells whose GPU buffer the
\* renderer works on (its own, or the pose renderer's once it was handed
\* over by setGpuMemoryAndSetIfLast), first whether
\* getGpuMemoryAndSetAsFirst was called on it, last the isLastRenderer it
\* was given ("unset" when setGpuMemoryAndSetIfLast was not called).
replicaRenderers(args) ==
    (IF args.renderOutput
     THEN <<[worker |-> "WPoseRenderer", gpuMemory |-> "own",
             first |-> args.extractAndRenderHands \/ args.extractAndRenderFace,
             last |-> "unset"]>>
     ELSE <<>>)
    \o (IF args.extractAndRenderHands
        THEN <<[worker |-> "WHandRenderer",
                gpuMemory |-> IF args.renderOutput THEN "WPoseRenderer" ELSE "own",
                first |-> FALSE,
                last |-> IF ~args.renderOutput THEN "unset"
                         ELSE IF handIsLastRenderer(args) THEN "true" ELSE "false"]>>
        ELSE <<>>)
    \o (IF args.extractAndRenderFace
        THEN <<[worker |-> "WFaceRenderer",
                gpuMemory |-> IF args.renderOutput THEN "WPoseRenderer" ELSE "own",
                first |-> FALSE,
                last |-> IF ~args.renderOutput THEN "unset" ELSE "true"]>>
        ELSE <<>>)

\* One list of renderers per GPU.
buildRenderers(args) == SeqOfN(replicaRenderers(args), args.gpuNumber)

\* The test of line 639 had it asked for more than two replicas: a group of
\* two would run without a WQueueOrderer (C1 depends on the threshold).
needsQueueOrdererAboveTwo(nPoses) == nPoses > 2

\* Whether configure() places a WQueueOrderer: spWPoses.size() > 1.
needsQueueOrderer(nPoses) == nPoses > 1

\* mPostProcessingWs: orderer, OpOutputToCvMat, key point scaler.
buildPostProcessing(args) ==
    (IF needsQueueOrderer(Len(buildPoses(args))) THEN <<"WQueueOrderer">> ELSE <<>>)
    \o (IF args.renderOutput THEN <<"WOpOutputToCvMat">> ELSE <<>>)
    \o (IF args.rescalePose THEN <<"WKeyPointScaler">> ELSE <<>>)

\* mOutputWs: the savers in the order configure() appends them, then the
\* GUI information adder.
buildOutput(args) ==
    (IF "writePose" \in args.write THEN <<"WPoseSaver">> ELSE <<>>)
    \o (IF "writePoseJson" \in args.write THEN <<"WPoseJsonSaver">> ELSE <<>>)
    \o (IF "writeCocoJson" \in args.write THEN <<"WPoseJsonCocoSaver">> ELSE <<>>)
    \o (IF "writeImages" \in args.write THEN <<"WImageSaver">> ELSE <<>>)
    \o (IF "writeVideo" \in args.write /\ args.producerSharedPtr
        THEN <<"WVideoSaver">> ELSE <<>>)
    \o (IF "writeHeatMaps" \in args.write THEN <<"WHeatMapSaver">> ELSE <<>>)
    \o (IF args.displayGui /\ args.guiVerbose THEN <<"WGuiInfoAdder">> ELSE <<>>)

\* configure(): an exception leaves the Wrapper as it was (every check
\* precedes the first assignment); otherwise all built-in workers are
\* replaced.
configure(w, args) ==
    IF configureError(w, args) # NoError
    THEN [w |-> w, err |-> configureError(w, args)]
    ELSE [w |-> [w EXCEPT
                   !.mGpuNumber = args.gpuNumber,
                   !.wDatumProducer =
                       IF args.producerSharedPtr THEN "WDatumProducer" ELSE NULL,
                   !.spWCvMatToOpInput = "WCvMatToOpInput",
                   !.spWCvMatToOpOutput = "WCvMatToOpOutput",
                   !.spWPoses = buildPoses(args),
                   !.renderers = buildRenderers(args),
                   !.mPostProcessingWs = buildPostProcessing(args),
                   !.mOutputWs = buildOutput(args),
                   !.spWGui = IF args.displayGui THEN "WGui" ELSE NULL],
          err |-> NoError]

\* ------------------------------------------------- ThreadManager::add
\* A stage of the graph: the workers run in list order on thread threadId,
\* reading queue queueIn and writing queue queueOut.
Stage(threadId, workers, queueIn, queueOut) ==
    [threadId |-> threadId, workers |-> workers,
     queueIn |-> queueIn, queueOut |-> queueOut]

\* ThreadManager::add (design document, section 4.2): rejects a stage whose
\* input queue index is not below its output queue index, or whose thread id
\* is below the thread id of the stage added before it.
addStageError(stages, threadId, queueIn, queueOut) ==
    IF queueIn >= queueOut THEN "AddStageQueueOrder"
    ELSE IF stages # <<>> /\ threadId < Last(stages).threadId
    THEN "AddStageThreadOrder"
    ELSE NoError

\* The graph under construction: the Wrapper's mThreadId, the local
\* queueIn/queueOut counters, the stages added so far and the exception
\* thrown so far (once thrown, nothing more is added).
add(b, threadId, workers, queueIn, queueOut) ==
    IF b.err # NoError THEN b
    ELSE IF addStageError(b.stages, threadId, queueIn, queueOut) # NoError
    THEN [b EXCEPT !.err = addStageError(b.stages, threadId, queueIn, queueOut)]
    ELSE [b EXCEPT !.stages = Append(@, Stage(threadId, workers, queueIn, queueOut))]

\* mThreadManager.add(threadId, workers, queueIn++, queueOut++).
addAndAdvance(b, threadId, workers) ==
    [add(b, threadId, workers, b.queueIn, b.queueOut) EXCEPT
        !.queueIn = b.queueIn + 1, !.queueOut = b.queueOut + 1]

\* Wrapper::threadIdPP: increments mThreadId only with multi-threading.
threadIdPP(b) ==
    IF b.mMultiThreadEnabled
    THEN [b EXCEPT !.mThreadId = UIntInc(@)]
    ELSE b

\* ------------------------------------------- configureThreadManager
\* The three security checks; the first that fails is thrown, before the
\* thread manager is touched.
producerCountError(w) ==
    /\ (w.wDatumProducer = NULL) = (w.mUserInputWs = <<>>)
    /\ ~IsAsyncIn(w.mThreadManagerMode)

\* The test of lines 918-919 without its mUserOutputWs conjunct: a user output
\* worker alone would not count as an output (C3 depends on the conjunct).
noOutputErrorIgnoringUserWs(w) ==
    /\ w.mOutputWs = <<>>
    /\ w.spWGui = NULL
    /\ ~IsAsyncOut(w.mThreadManagerMode)

noOutputError(w) ==
    /\ w.mOutputWs = <<>>
    /\ w.mUserOutputWs = <<>>
    /\ w.spWGui = NULL
    /\ ~IsAsyncOut(w.mThreadManagerMode)

\* The security checks without the first one, of lines 908-909 (C17 depends
\* on it).
securityChecksOfWorkersOnly(w) ==
    IF producerCountError(w) THEN "NeedOneProducer"
    ELSE IF noOutputError(w) THEN "NoOutputSelected"
    ELSE NoError

securityChecks(w) ==
    IF w.spWCvMatToOpInput = NULL \/ w.spWCvMatToOpOutput = NULL
    THEN "NotConfigured"
    ELSE IF producerCountError(w) THEN "NeedOneProducer"
    ELSE IF noOutputError(w) THEN "NoOutputSelected"
    ELSE NoError

\* The converters' stage without the id generator of lines 936 and 952 (C21
\* depends on it).
inputConvertersWithoutIdGenerator == <<"WCvMatToOpInput", "WCvMatToOpOutput">>

\* The workers that follow the ingress workers: the id generator and the
\* two converters.
inputConverters == <<"WIdGenerator", "WCvMatToOpInput", "WCvMatToOpOutput">>

\* Input: the user worker on its own thread followed by the converters on
\* the next one, or one stage holding the user worker or the producer (or
\* neither, in an asynchronous-input mode) followed by the converters.
addInputStages(w, b) ==
    threadIdPP(
        IF w.mUserInputWs # <<>> /\ w.mUserInputWsOnNewThread
        THEN LET b1 == threadIdPP(addAndAdvance(b, b.mThreadId, w.mUserInputWs))
             IN  addAndAdvance(b1, b1.mThreadId, inputConverters)
        ELSE IF w.mUserInputWs # <<>>
        THEN addAndAdvance(b, b.mThreadId,
                           mergeWorkers(mergeWorkers(<<>>, w.mUserInputWs), inputConverters))
        ELSE IF w.wDatumProducer # NULL
        THEN addAndAdvance(b, b.mThreadId,
                           mergeWorkers(mergeWorkers(<<>>, <<w.wDatumProducer>>), inputConverters))
        ELSE IF ~IsAsyncIn(w.mThreadManagerMode)
        THEN [b EXCEPT !.err = "NoInputSelected"]
        ELSE addAndAdvance(b, b.mThreadId, mergeWorkers(<<>>, inputConverters)))

\* for (auto& wPose : spWPoses) { add(mThreadId, wPose, queueIn, queueOut);
\* threadIdPP(); }
RECURSIVE addPoseReplicas(_, _, _)
addPoseReplicas(b, poses, i) ==
    IF i > Len(poses) THEN b
    ELSE addPoseReplicas(
             threadIdPP(add(b, b.mThreadId, poses[i], b.queueIn, b.queueOut)),
             poses, i + 1)

\* The pose stages without the queueIn++/queueOut++ of lines 972-973: the
\* stage after the group would use the group's queues (C20 depends on them).
addPoseStagesSameQueues(w, b) ==
    IF w.spWPoses = <<>> THEN b
    ELSE IF w.mMultiThreadEnabled
    THEN addPoseReplicas(b, w.spWPoses, 1)
    ELSE add(b, b.mThreadId, w.spWPoses[1], b.queueIn, b.queueOut)

\* Pose estimation: every replica on its own thread with multi-threading,
\* only the first replica without; all between the same two queues.
addPoseStages(w, b) ==
    IF w.spWPoses = <<>> THEN b
    ELSE LET b1 == IF w.mMultiThreadEnabled
                   THEN addPoseReplicas(b, w.spWPoses, 1)
                   ELSE add(b, b.mThreadId, w.spWPoses[1], b.queueIn, b.queueOut)
         IN  [b1 EXCEPT !.queueIn = @ + 1, !.queueOut = @ + 1]

\* The post stages had the add of line 981 not advanced queueIn/queueOut:
\* the post-processing stage and the user's stage would read the same queue
\* (C25 depends on the chain being linear).
addPostStagesSharingQueues(w, b) ==
    IF w.mUserPostProcessingWs # <<>> /\ w.mUserPostProcessingWsOnNewThread
    THEN LET b1 == IF w.mPostProcessingWs # <<>>
                   THEN threadIdPP(add(b, b.mThreadId, w.mPostProcessingWs,
                                       b.queueIn, b.queueOut))
                   ELSE b
             b2 == threadIdPP(addAndAdvance(b1, b1.mThreadId, w.mUserPostProcessingWs))
         IN  IF w.mOutputWs # <<>>
             THEN threadIdPP(addAndAdvance(b2, b2.mThreadId, w.mOutputWs))
             ELSE b2
    ELSE LET workersAux ==
                 mergeWorkers(mergeWorkers(w.mPostProcessingWs, w.mUserPostProcessingWs),
                              w.mOutputWs)
         IN  IF workersAux # <<>>
             THEN threadIdPP(addAndAdvance(b, b.mThreadId, workersAux))
             ELSE b

\* The post stages without the test of line 997: the merged stage would be
\* registered even when there is no worker to put on it.
addPostStagesEvenIfEmpty(w, b) ==
    IF w.mUserPostProcessingWs # <<>> /\ w.mUserPostProcessingWsOnNewThread
    THEN LET b1 == IF w.mPostProcessingWs # <<>>
                   THEN threadIdPP(addAndAdvance(b, b.mThreadId, w.mPostProcessingWs))
                   ELSE b
             b2 == threadIdPP(addAndAdvance(b1, b1.mThreadId, w.mUserPostProcessingWs))
         IN  IF w.mOutputWs # <<>>
             THEN threadIdPP(addAndAdvance(b2, b2.mThreadId, w.mOutputWs))
             ELSE b2
    ELSE LET workersAux ==
                 mergeWorkers(mergeWorkers(w.mPostProcessingWs, w.mUserPostProcessingWs),
                              w.mOutputWs)
         IN  threadIdPP(addAndAdvance(b, b.mThreadId, workersAux))

\* Post-processing, user post-processing and output workers: three stages
\* when the user worker has its own thread, one merged stage otherwise
\* (none when the merged list is empty).
addPostStages(w, b) ==
    IF w.mUserPostProcessingWs # <<>> /\ w.mUserPostProcessingWsOnNewThread
    THEN LET b1 == IF w.mPostProcessingWs # <<>>
                   THEN threadIdPP(addAndAdvance(b, b.mThreadId, w.mPostProcessingWs))
                   ELSE b
             b2 == threadIdPP(addAndAdvance(b1, b1.mThreadId, w.mUserPostProcessingWs))
         IN  IF w.mOutputWs # <<>>
             THEN threadIdPP(addAndAdvance(b2, b2.mThreadId, w.mOutputWs))
             ELSE b2
    ELSE LET workersAux ==
                 mergeWorkers(mergeWorkers(w.mPostProcessingWs, w.mUserPostProcessingWs),
                              w.mOutputWs)
         IN  IF workersAux # <<>>
             THEN threadIdPP(addAndAdvance(b, b.mThreadId, workersAux))
             ELSE b

\* The user output worker: on a new thread, or on thread mThreadId-1
\* (unsigned arithmetic).
addUserOutputStage(w, b) ==
    IF w.mUserOutputWs = <<>> THEN b
    ELSE IF w.mUserOutputWsOnNewThread
    THEN threadIdPP(addAndAdvance(b, b.mThreadId, w.mUserOutputWs))
    ELSE addAndAdvance(b, UIntDec(b.mThreadId), w.mUserOutputWs)

addGuiStage(w, b) ==
    IF w.spWGui = NULL THEN b
    ELSE threadIdPP(addAndAdvance(b, b.mThreadId, <<w.spWGui>>))

\* The graph had mThreadId not been set to 0 at line 927: the build starts
\* from the thread id the build before left in the Wrapper.
buildGraphKeepingThreadId(w) ==
    LET b0 == [mThreadId |-> IF w.spWIdGenerator = NULL THEN 0 ELSE w.mThreadId,
               queueIn |-> 0, queueOut |-> 1,
               stages |-> <<>>, err |-> NoError,
               mMultiThreadEnabled |-> w.mMultiThreadEnabled]
    IN  addGuiStage(w,
          addUserOutputStage(w,
            addPostStages(w,
              addPoseStages(w,
                addInputStages(w, b0)))))

\* The graph configureThreadManager builds once the checks passed:
\* mThreadId = 0, queueIn = 0, queueOut = 1, then the stages in order.
buildGraph(w) ==
    LET b0 == [mThreadId |-> 0, queueIn |-> 0, queueOut |-> 1,
               stages |-> <<>>, err |-> NoError,
               mMultiThreadEnabled |-> w.mMultiThreadEnabled]
    IN  addGuiStage(w,
          addUserOutputStage(w,
            addPostStages(w,
              addPoseStages(w,
                addInputStages(w, b0)))))

\* configureThreadManager had mThreadManager.reset() of line 926 come before
\* the security checks of lines 908-922.
configureThreadManagerResettingFirst(w) ==
    IF securityChecks(w) # NoError
    THEN [err |-> securityChecks(w), reset |-> TRUE, w |-> w, stages |-> <<>>]
    ELSE LET b == buildGraph(w)
         IN  [err |-> b.err, reset |-> TRUE,
              w |-> [w EXCEPT !.mThreadId = b.mThreadId,
                              !.spWIdGenerator = "WIdGenerator"],
              stages |-> b.stages]

\* configureThreadManager: err is the exception thrown (none when it
\* returns), reset tells whether mThreadManager.reset() was reached, w and
\* stages are the Wrapper and the graph left behind.
configureThreadManager(w) ==
    IF securityChecks(w) # NoError
    THEN [err |-> securityChecks(w), reset |-> FALSE, w |-> w, stages |-> <<>>]
    ELSE LET b == buildGraph(w)
         IN  [err |-> b.err, reset |-> TRUE,
              w |-> [w EXCEPT !.mThreadId = b.mThreadId,
                              !.spWIdGenerator = "WIdGenerator"],
              stages |-> b.stages]

\* ================================================================ state
VARIABLES
    wrapper,    \* the Wrapper's members (see Wrapper above)
    stages,     \* mThreadManager: the stages added, in order
    queues,     \* mThreadManager: queues[k + 1] is the content of queue k
    capacity,   \* the capacity of every queue
    closed,     \* whether the queues were closed by stop()
    isRunning,  \* the thread manager's shared running flag
    hold,       \* hold[i]: the items stage i has processed and not yet pushed
    idCounter,  \* the next id of the WIdGenerator created by the last start
    ordNext,    \* WQueueOrderer: the next expected id
    ordBuf,     \* WQueueOrderer: the items held back
    entered,    \* number of items that entered the pipeline in this run
    egress,     \* the items that left the pipeline in this run, in order
    pusher,     \* the application thread that pushes: "idle", or the wait
                \* operation it is blocked in
    popper,     \* the application thread that pops: "idle", or "waitAndPop"
    last,       \* the call that returned last and its outcome
    inExec      \* whether the controlling thread is inside exec()

vars == <<wrapper, stages, queues, capacity, closed, isRunning, hold, idCounter,
          ordNext, ordBuf, entered, egress, pusher, popper, last, inExec>>

tmVars == <<stages, queues, closed, isRunning, hold, idCounter, entered, egress>>
ordVars == <<ordNext, ordBuf>>

\* A work item: its payload (the position at which it entered the pipeline,
\* counted from 1) and its sequence id (-1 until the id generator ran).
Item(data) == [data |-> data, id |-> -1]

\* The outcome of a call: "returned" for a void function that returned, the
\* name of the exception for one that threw.
Returned(op, err) == [op |-> op, ret |-> IF err = NoError THEN "returned" ELSE err]

\* ------------------------------------------------------------- queues
\* Queue k of the thread manager (design document, section 3: a bounded
\* FIFO with a closed flag).
Queue(k) == queues[k + 1]
NumQueues == Len(queues)
LastQueue == NumQueues - 1

\* Queue::tryPush / waitPush: whether an item can be appended now.
QueueHasSpace(k) == ~closed /\ Len(Queue(k)) < capacity

QueuePush(k, item) == [queues EXCEPT ![k + 1] = Append(@, item)]
QueuePop(k) == [queues EXCEPT ![k + 1] = Tail(@)]

RECURSIVE MaxQueueOut(_)
MaxQueueOut(ss) ==
    IF ss = <<>> THEN 0
    ELSE LET m == MaxQueueOut(Tail(ss))
         IN  IF Head(ss).queueOut > m THEN Head(ss).queueOut ELSE m

\* ------------------------------------------------------------ workers
\* WIdGenerator: gives each item the next unused id.
idGeneratorWork(items, rt) ==
    [items |-> [i \in 1..Len(items) |-> [items[i] EXCEPT !.id = rt.idCounter + i - 1]],
     rt |-> [rt EXCEPT !.idCounter = @ + Len(items)]]

\* WQueueOrderer (design document, section 4.3): the buffered items that
\* became ready, in ascending id order.
RECURSIVE releaseReady(_, _)
releaseReady(next, buf) ==
    IF \E it \in buf : it.id = next
    THEN LET it == CHOOSE x \in buf : x.id = next
             rest == releaseReady(next + 1, buf \ {it})
         IN  [out |-> <<it>> \o rest.out, next |-> rest.next, buf |-> rest.buf]
    ELSE [out |-> <<>>, next |-> next, buf |-> buf]

\* The WQueueOrderer had it kept a copy of the item it releases at once
\* (C28 depends on the buffer holding only items that came early).
queueOrdererWorkOneKeepingReleased(item, rt) ==
    IF item.id = rt.ordNext
    THEN LET r == releaseReady(rt.ordNext + 1, rt.ordBuf)
         IN  [items |-> <<item>> \o r.out,
              rt |-> [rt EXCEPT !.ordNext = r.next, !.ordBuf = r.buf \cup {item}]]
    ELSE [items |-> <<>>, rt |-> [rt EXCEPT !.ordBuf = @ \cup {item}]]

\* WQueueOrderer on one item: released at once when its id is the expected
\* one (followed by the buffered items that became ready), held back
\* otherwise.
queueOrdererWorkOne(item, rt) ==
    IF item.id = rt.ordNext
    THEN LET r == releaseReady(rt.ordNext + 1, rt.ordBuf)
         IN  [items |-> <<item>> \o r.out,
              rt |-> [rt EXCEPT !.ordNext = r.next, !.ordBuf = r.buf]]
    ELSE [items |-> <<>>, rt |-> [rt EXCEPT !.ordBuf = @ \cup {item}]]

RECURSIVE queueOrdererWork(_, _)
queueOrdererWork(items, rt) ==
    IF items = <<>> THEN [items |-> <<>>, rt |-> rt]
    ELSE LET r1 == queueOrdererWorkOne(Head(items), rt)
             r2 == queueOrdererWork(Tail(items), r1.rt)
         IN  [items |-> r1.items \o r2.items, rt |-> r2.rt]

\* One worker against the items in flight; every worker other than the id
\* generator and the orderer hands its item on.
work(worker, items, rt) ==
    IF worker = "WIdGenerator" THEN idGeneratorWork(items, rt)
    ELSE IF worker = "WQueueOrderer" THEN queueOrdererWork(items, rt)
    ELSE [items |-> items, rt |-> rt]

\* A stage runs its workers strictly in list order.
RECURSIVE runWorkers(_, _, _)
runWorkers(workers, items, rt) ==
    IF workers = <<>> THEN [items |-> items, rt |-> rt]
    ELSE LET r == work(Head(workers), items, rt)
         IN  runWorkers(Tail(workers), r.items, r.rt)

\* --------------------------------------------------------------- Init
\* A Wrapper right after its constructor, in any mode; its thread manager
\* will create queues of capacity 1.
Init ==
    /\ wrapper \in {Wrapper(m) : m \in Modes}
    /\ stages = <<>>
    /\ queues = <<>>
    /\ capacity = 1
    /\ closed = FALSE
    /\ isRunning = FALSE
    /\ hold = <<>>
    /\ idCounter = 0
    /\ ordNext = 0
    /\ ordBuf = {}
    /\ entered = 0
    /\ egress = <<>>
    /\ pusher = "idle"
    /\ popper = "idle"
    /\ last = Returned("Wrapper", NoError)
    /\ inExec = FALSE

\* ------------------------------------- configuration calls (one thread)
\* The thread that configures and starts the Wrapper makes no other call
\* while it is inside exec().
DisableMultiThreading ==
    /\ ~inExec
    /\ wrapper' = disableMultiThreading(wrapper)
    /\ last' = Returned("disableMultiThreading", NoError)
    /\ UNCHANGED <<tmVars, ordVars, capacity, pusher, popper, inExec>>

SetWorkerInput(worker, workerOnNewThread) ==
    /\ ~inExec
    /\ wrapper' = setWorkerInput(wrapper, worker, workerOnNewThread).w
    /\ last' = Returned("setWorkerInput",
                        setWorkerInput(wrapper, worker, workerOnNewThread).err)
    /\ UNCHANGED <<tmVars, ordVars, capacity, pusher, popper, inExec>>

SetWorkerPostProcessing(worker, workerOnNewThread) ==
    /\ ~inExec
    /\ wrapper' = setWorkerPostProcessing(wrapper, worker, workerOnNewThread).w
    /\ last' = Returned("setWorkerPostProcessing",
                        setWorkerPostProcessing(wrapper, worker, workerOnNewThread).err)
    /\ UNCHANGED <<tmVars, ordVars, capacity, pusher, popper, inExec>>

SetWorkerOutput(worker, workerOnNewThread) ==
    /\ ~inExec
    /\ wrapper' = setWorkerOutput(wrapper, worker, workerOnNewThread).w
    /\ last' = Returned("setWorkerOutput",
                        setWorkerOutput(wrapper, worker, workerOnNewThread).err)
    /\ UNCHANGED <<tmVars, ordVars, capacity, pusher, popper, inExec>>

\* configure() is called while the pipeline is not running.  A successful
\* call builds new workers, among them a new WQueueOrderer (expecting id 0,
\* holding nothing) when there is more than one pose replica.
Configure(args) ==
    /\ ~inExec
    /\ ~isRunning
    /\ wrapper' = configure(wrapper, args).w
    /\ last' = Returned("configure", configure(wrapper, args).err)
    /\ IF configure(wrapper, args).err = NoError
       THEN ordNext' = 0 /\ ordBuf' = {}
       ELSE UNCHANGED ordVars
    /\ UNCHANGED <<tmVars, capacity, pusher, popper, inExec>>

\* ----------------------------------------------------------- lifecycle
\* start() and exec(): configureThreadManager, then ThreadManager::start or
\* exec.  An exception of the security checks leaves the thread manager
\* alone; a later one leaves it reset (stopped, no queues) with the stages
\* added so far.  Otherwise the queues are created empty and open, the
\* worker threads start and the running flag is set.  No boundary call is
\* in flight while the graph is rebuilt.
Launch(op, blocking) ==
    /\ ~inExec
    /\ pusher = "idle" /\ popper = "idle"
    /\ LET r == configureThreadManager(wrapper)
       IN  /\ wrapper' = r.w
           /\ IF r.err # NoError
              THEN /\ last' = Returned(op, r.err)
                   /\ inExec' = FALSE
                   /\ IF r.reset
                      THEN /\ stages' = r.stages
                           /\ queues' = <<>>
                           /\ closed' = FALSE
                           /\ isRunning' = FALSE
                           /\ hold' = <<>>
                           /\ idCounter' = 0
                           /\ UNCHANGED <<entered, egress>>
                      ELSE UNCHANGED tmVars
              ELSE /\ last' = [op |-> op, ret |-> IF blocking THEN "running" ELSE "returned"]
                   /\ inExec' = blocking
                   /\ stages' = r.stages
                   /\ queues' = SeqOfN(<<>>, MaxQueueOut(r.stages) + 1)
                   /\ closed' = FALSE
                   /\ isRunning' = TRUE
                   /\ hold' = SeqOfN(<<>>, Len(r.stages))
                   /\ idCounter' = 0
                   /\ entered' = 0
                   /\ egress' = <<>>
    /\ UNCHANGED <<ordVars, capacity, pusher, popper>>

Start == Launch("start", FALSE)

\* exec() had it called ThreadManager::start instead of ThreadManager::exec
\* at line 730 (C15 depends on the call being the blocking one).
ExecWithoutWaiting == Launch("exec", FALSE)

Exec == Launch("exec", TRUE)

\* exec() returns to its caller once the pipeline has stopped.
ExecReturn ==
    /\ inExec
    /\ ~isRunning
    /\ inExec' = FALSE
    /\ last' = Returned("exec", NoError)
    /\ UNCHANGED <<wrapper, tmVars, ordVars, capacity, pusher, popper>>

\* ThreadManager::stop (design document, section 4.2): clears the running
\* flag, closes every queue and joins the worker threads, whose items in
\* hand are dropped.
threadManagerStop ==
    /\ isRunning' = FALSE
    /\ closed' = (queues # <<>>)
    /\ hold' = SeqOfN(<<>>, Len(hold))
    /\ UNCHANGED <<stages, queues, idCounter, entered, egress>>

\* stop() had it returned without the call of line 757 (C8 depends on it).
stopWithoutThreadManagerStop ==
    /\ last' = Returned("stop", NoError)
    /\ UNCHANGED <<wrapper, tmVars, ordVars, capacity, pusher, popper, inExec>>

\* Wrapper::stop, callable from any thread.
stop ==
    /\ threadManagerStop
    /\ last' = Returned("stop", NoError)
    /\ UNCHANGED <<wrapper, ordVars, capacity, pusher, popper, inExec>>

Stop == stop

\* isRunning() had it told whether the thread manager has queues instead of
\* reading the running flag (C13 depends on line 769).
wrapperIsRunningFromQueues == queues # <<>>

\* Wrapper::isRunning: the thread manager's running flag.
wrapperIsRunning == isRunning

\* reset() had it left the two converters of lines 883-884 in place.
resetKeepingConverters(w) ==
    [w EXCEPT !.mThreadId = 0,
              !.mUserInputWs = <<>>,
              !.wDatumProducer = NULL,
              !.spWPoses = <<>>,
              !.renderers = <<>>,
              !.mPostProcessingWs = <<>>,
              !.mUserPostProcessingWs = <<>>,
              !.mOutputWs = <<>>,
              !.spWGui = NULL,
              !.mUserOutputWs = <<>>]

\* Wrapper::reset (private, called by the destructor): clears every worker;
\* the flags and spWIdGenerator are left as they are.
reset(w) ==
    [w EXCEPT !.mThreadId = 0,
              !.mUserInputWs = <<>>,
              !.wDatumProducer = NULL,
              !.spWCvMatToOpInput = NULL,
              !.spWCvMatToOpOutput = NULL,
              !.spWPoses = <<>>,
              !.renderers = <<>>,
              !.mPostProcessingWs = <<>>,
              !.mUserPostProcessingWs = <<>>,
              !.mOutputWs = <<>>,
              !.spWGui = NULL,
              !.mUserOutputWs = <<>>]

\* ~Wrapper: stop(), then reset().  The object is destroyed while no call
\* on it is in flight; between the two steps, and afterwards, nothing else
\* happens to it (see NextLife).
DestructorStop ==
    /\ ~inExec
    /\ pusher = "idle" /\ popper = "idle"
    /\ threadManagerStop
    /\ last' = [op |-> "~Wrapper", ret |-> "stopped"]
    /\ UNCHANGED <<wrapper, ordVars, capacity, pusher, popper, inExec>>

\* reset(): mThreadManager.reset() leaves the thread manager without stages
\* and queues.
DestructorReset ==
    /\ last = [op |-> "~Wrapper", ret |-> "stopped"]
    /\ wrapper' = reset(wrapper)
    /\ stages' = <<>>
    /\ queues' = <<>>
    /\ closed' = FALSE
    /\ isRunning' = FALSE
    /\ hold' = <<>>
    /\ last' = Returned("~Wrapper", NoError)
    /\ UNCHANGED <<idCounter, entered, egress, ordVars, capacity, pusher, popper, inExec>>

\* ------------------------------------------------- boundary operations
\* ThreadManager's insertions had they not tested the mode (C26 depends on
\* the test).
threadManagerPushInAnyMode(blocking) ==
    IF queues = <<>> THEN "NotStarted"
    ELSE IF closed THEN "false"
    ELSE IF Len(Queue(0)) < capacity THEN "true"
    ELSE IF blocking THEN "blocked"
    ELSE "false"

\* ThreadManager::tryEmplace/tryPush (blocking = FALSE) and
\* waitAndEmplace/waitAndPush (blocking = TRUE) on queue 0.  They are valid
\* only in the asynchronous-input modes (doc comments of wrapper.hpp) and
\* need the queues start() creates; on a closed queue they fail, on a full
\* one the try variant fails and the wait variant blocks.
threadManagerPush(blocking) ==
    IF ~IsAsyncIn(wrapper.mThreadManagerMode) THEN "ModeNotAvailable"
    ELSE IF queues = <<>> THEN "NotStarted"
    ELSE IF closed THEN "false"
    ELSE IF Len(Queue(0)) < capacity THEN "true"
    ELSE IF blocking THEN "blocked"
    ELSE "false"

\* ThreadManager::tryPop (blocking = FALSE) and waitAndPop (blocking = TRUE)
\* on the last queue: valid only in the asynchronous-output modes; an item
\* that is there is retrieved, also after the queue was closed; on an empty
\* queue the try variant fails and the wait variant blocks until an item
\* arrives or the queue is closed.
threadManagerPop(blocking) ==
    IF ~IsAsyncOut(wrapper.mThreadManagerMode) THEN "ModeNotAvailable"
    ELSE IF queues = <<>> THEN "NotStarted"
    ELSE IF Queue(LastQueue) # <<>> THEN "true"
    ELSE IF closed THEN "false"
    ELSE IF blocking THEN "blocked"
    ELSE "false"

\* The outcome of each Wrapper boundary operation in the current state: the
\* exception it throws, "true", "false", or "blocked" while it waits.
\* tryEmplace had it forwarded to the waiting insertion (C7 depends on the
\* call of line 786 being the non-waiting one).
tryEmplaceWaiting ==
    IF wrapper.mUserInputWs # <<>> THEN "InputWorkerSelected"
    ELSE threadManagerPush(TRUE)

tryEmplace ==
    IF wrapper.mUserInputWs # <<>> THEN "InputWorkerSelected"
    ELSE threadManagerPush(FALSE)

\* waitAndEmplace without the test of line 800 (C4 depends on it).
waitAndEmplaceUnchecked == threadManagerPush(TRUE)

waitAndEmplace ==
    IF wrapper.mUserInputWs # <<>> THEN "InputWorkerSelected"
    ELSE threadManagerPush(TRUE)

\* tryPush had it appended to queue 0 itself instead of going through the
\* thread manager's bounded push (C10 depends on the call of line 818).
tryPushUnbounded ==
    IF wrapper.mUserInputWs # <<>> THEN "InputWorkerSelected"
    ELSE IF ~IsAsyncIn(wrapper.mThreadManagerMode) THEN "ModeNotAvailable"
    ELSE IF queues = <<>> THEN "NotStarted"
    ELSE "true"

tryPush ==
    IF wrapper.mUserInputWs # <<>> THEN "InputWorkerSelected"
    ELSE threadManagerPush(FALSE)

\* waitAndPush had it forwarded to the non-waiting push (C9 depends on the
\* call of line 834 being the waiting one).
waitAndPushNoWait ==
    IF wrapper.mUserInputWs # <<>> THEN "InputWorkerSelected"
    ELSE threadManagerPush(FALSE)

waitAndPush ==
    IF wrapper.mUserInputWs # <<>> THEN "InputWorkerSelected"
    ELSE threadManagerPush(TRUE)

\* tryPop had it refused to pop once the queues are closed (C11 depends on
\* line 850 forwarding whatever the state of the pipeline).
tryPopOnlyWhileOpen ==
    IF wrapper.mUserOutputWs # <<>> THEN "OutputWorkerSelected"
    ELSE IF closed THEN "false"
    ELSE threadManagerPop(FALSE)

tryPop ==
    IF wrapper.mUserOutputWs # <<>> THEN "OutputWorkerSelected"
    ELSE threadManagerPop(FALSE)

waitAndPop ==
    IF wrapper.mUserOutputWs # <<>> THEN "OutputWorkerSelected"
    ELSE threadManagerPop(TRUE)

PushOps == {"tryEmplace", "waitAndEmplace", "tryPush", "waitAndPush"}
PopOps == {"tryPop", "waitAndPop"}

pushOutcome(op) ==
    CASE op = "tryEmplace" -> tryEmplace
      [] op = "waitAndEmplace" -> waitAndEmplace
      [] op = "tryPush" -> tryPush
      [] op = "waitAndPush" -> waitAndPush

popOutcome(op) ==
    CASE op = "tryPop" -> tryPop
      [] op = "waitAndPop" -> waitAndPop

\* The exceptions a boundary operation or a lifecycle call can throw.
Errors == {"InputWorkerSelected", "OutputWorkerSelected", "ModeNotAvailable",
           "NotStarted", "NotConfigured", "NeedOneProducer", "NoOutputSelected",
           "NoInputSelected", "AddStageQueueOrder", "AddStageThreadOrder"}

\* The application offers its next item (the one that would be number
\* entered + 1) to queue 0.
PushCall(op) ==
    /\ pusher = "idle"
    /\ entered < MaxItems
    /\ LET outcome == pushOutcome(op)
       IN  IF outcome = "true"
           THEN /\ queues' = QueuePush(0, Item(entered + 1))
                /\ entered' = entered + 1
                /\ pusher' = "idle"
                /\ last' = [op |-> op, ret |-> "true"]
           ELSE IF outcome = "blocked"
           THEN /\ pusher' = op
                /\ UNCHANGED <<queues, entered, last>>
           ELSE /\ last' = [op |-> op, ret |-> outcome]
                /\ UNCHANGED <<queues, entered, pusher>>
    /\ UNCHANGED <<wrapper, stages, capacity, closed, isRunning, hold, idCounter,
                   ordVars, egress, popper, inExec>>

\* A blocked waitAndEmplace/waitAndPush wakes up: the queue was closed (it
\* returns false) or has space (the item is inserted).
PushWake ==
    /\ pusher # "idle"
    /\ closed \/ Len(Queue(0)) < capacity
    /\ pusher' = "idle"
    /\ IF closed
       THEN /\ last' = [op |-> pusher, ret |-> "false"]
            /\ UNCHANGED <<queues, entered>>
       ELSE /\ queues' = QueuePush(0, Item(entered + 1))
            /\ entered' = entered + 1
            /\ last' = [op |-> pusher, ret |-> "true"]
    /\ UNCHANGED <<wrapper, stages, capacity, closed, isRunning, hold, idCounter,
                   ordVars, egress, popper, inExec>>

PopCall(op) ==
    /\ popper = "idle"
    /\ LET outcome == popOutcome(op)
       IN  IF outcome = "true"
           THEN /\ queues' = QueuePop(LastQueue)
                /\ egress' = Append(egress, Head(Queue(LastQueue)).data)
                /\ popper' = "idle"
                /\ last' = [op |-> op, ret |-> "true"]
           ELSE IF outcome = "blocked"
           THEN /\ popper' = op
                /\ UNCHANGED <<queues, egress, last>>
           ELSE /\ last' = [op |-> op, ret |-> outcome]
                /\ UNCHANGED <<queues, egress, popper>>
    /\ UNCHANGED <<wrapper, stages, capacity, closed, isRunning, hold, idCounter,
                   ordVars, entered, pusher, inExec>>

\* A blocked waitAndPop wakes up: an item arrived (it is retrieved) or the
\* queue was closed while empty (it returns false).
PopWake ==
    /\ popper # "idle"
    /\ closed \/ Queue(LastQueue) # <<>>
    /\ popper' = "idle"
    /\ IF Queue(LastQueue) # <<>>
       THEN /\ queues' = QueuePop(LastQueue)
            /\ egress' = Append(egress, Head(Queue(LastQueue)).data)
            /\ last' = [op |-> popper, ret |-> "true"]
       ELSE /\ last' = [op |-> popper, ret |-> "false"]
            /\ UNCHANGED <<queues, egress>>
    /\ UNCHANGED <<wrapper, stages, capacity, closed, isRunning, hold, idCounter,
                   ordVars, entered, pusher, inExec>>

\* ------------------------------------------------------- worker threads
\* The stage that feeds the pipeline: the one reading queue 0 when the mode
\* is not an asynchronous-input one (it produces instead of popping).
IsSource(i) == ~IsAsyncIn(wrapper.mThreadManagerMode) /\ stages[i].queueIn = 0

\* The stage that ends the pipeline: the one writing the last queue when the
\* mode is not an asynchronous-output one (it consumes instead of pushing).
IsSink(i) == ~IsAsyncOut(wrapper.mThreadManagerMode) /\ stages[i].queueOut = LastQueue

Payloads(items) == [i \in 1..Len(items) |-> items[i].data]

\* A worker loop takes its next item (a source produces it, as long as
\* fewer than limit items entered; any other stage pops it from its input
\* queue) and runs its workers on it in order; a sink consumes the result,
\* any other stage keeps it until it is pushed.
StageTakeUpTo(i, limit) ==
    /\ isRunning
    /\ hold[i] = <<>>
    /\ IF IsSource(i) THEN entered < limit ELSE Queue(stages[i].queueIn) # <<>>
    /\ LET input == IF IsSource(i) THEN Item(entered + 1)
                                   ELSE Head(Queue(stages[i].queueIn))
           r == runWorkers(stages[i].workers, <<input>>,
                           [idCounter |-> idCounter, ordNext |-> ordNext,
                            ordBuf |-> ordBuf])
       IN  /\ idCounter' = r.rt.idCounter
           /\ ordNext' = r.rt.ordNext
           /\ ordBuf' = r.rt.ordBuf
           /\ IF IsSink(i)
              THEN egress' = egress \o Payloads(r.items) /\ UNCHANGED hold
              ELSE hold' = [hold EXCEPT ![i] = r.items] /\ UNCHANGED egress
    /\ IF IsSource(i)
       THEN entered' = entered + 1 /\ UNCHANGED queues
       ELSE queues' = QueuePop(stages[i].queueIn) /\ UNCHANGED entered
    /\ UNCHANGED <<wrapper, stages, capacity, closed, isRunning, pusher, popper,
                   last, inExec>>

\* A worker loop had it read the head of its input queue without removing
\* it (C24 depends on the pop).
StageTakeWithoutPop(i) ==
    /\ isRunning
    /\ hold[i] = <<>>
    /\ ~IsSource(i)
    /\ Queue(stages[i].queueIn) # <<>>
    /\ LET r == runWorkers(stages[i].workers, <<Head(Queue(stages[i].queueIn))>>,
                           [idCounter |-> idCounter, ordNext |-> ordNext,
                            ordBuf |-> ordBuf])
       IN  /\ idCounter' = r.rt.idCounter
           /\ ordNext' = r.rt.ordNext
           /\ ordBuf' = r.rt.ordBuf
           /\ IF IsSink(i)
              THEN egress' = egress \o Payloads(r.items) /\ UNCHANGED hold
              ELSE hold' = [hold EXCEPT ![i] = r.items] /\ UNCHANGED egress
    /\ UNCHANGED <<wrapper, stages, queues, capacity, closed, isRunning, entered,
                   pusher, popper, last, inExec>>

\* The worker loop of a run of at most MaxItems items.
StageTake(i) == StageTakeUpTo(i, MaxItems)

\* A worker loop pushes the oldest item it holds once its output queue has
\* space.
StagePut(i) ==
    /\ isRunning
    /\ hold[i] # <<>>
    /\ QueueHasSpace(stages[i].queueOut)
    /\ queues' = QueuePush(stages[i].queueOut, Head(hold[i]))
    /\ hold' = [hold EXCEPT ![i] = Tail(@)]
    /\ UNCHANGED <<wrapper, stages, capacity, closed, isRunning, idCounter,
                   ordVars, entered, egress, pusher, popper, last, inExec>>

Workers ==
    \E i \in 1..Len(stages) : StageTake(i) \/ StagePut(i)

\* ------------------------------------------------------ worker failure
\* The item stage i works on next.
StageInput(i) ==
    IF IsSource(i) THEN Item(entered + 1) ELSE Head(Queue(stages[i].queueIn))

\* A failing worker had the stage driver loop ignored its failure: the item
\* is dropped and the pipeline runs on (C16 depends on the stop path).
StageFailSwallowed(i) ==
    /\ isRunning
    /\ hold[i] = <<>>
    /\ IF IsSource(i) THEN entered < MaxItems ELSE Queue(stages[i].queueIn) # <<>>
    /\ IF IsSource(i)
       THEN entered' = entered + 1 /\ UNCHANGED queues
       ELSE queues' = QueuePop(stages[i].queueIn) /\ UNCHANGED entered
    /\ UNCHANGED <<wrapper, stages, capacity, closed, isRunning, hold, idCounter,
                   ordVars, egress, pusher, popper, last, inExec>>

\* A StageFailure (design document, section 7): worker k of stage i raises
\* it on the item the stage took, after the workers before it ran.  The
\* item is dropped, the running flag cleared, every queue closed and the
\* failure handed to the caller.
StageFail(i) ==
    /\ isRunning
    /\ hold[i] = <<>>
    /\ IF IsSource(i) THEN entered < MaxItems ELSE Queue(stages[i].queueIn) # <<>>
    /\ \E k \in 1..Len(stages[i].workers) :
          LET r == runWorkers(SubSeq(stages[i].workers, 1, k - 1),
                              <<StageInput(i)>>,
                              [idCounter |-> idCounter, ordNext |-> ordNext,
                               ordBuf |-> ordBuf])
          IN  /\ r.items # <<>>
              /\ idCounter' = r.rt.idCounter
              /\ ordNext' = r.rt.ordNext
              /\ ordBuf' = r.rt.ordBuf
              /\ last' = Returned(stages[i].workers[k], "StageFailure")
    /\ IF IsSource(i)
       THEN entered' = entered + 1 /\ UNCHANGED queues
       ELSE queues' = QueuePop(stages[i].queueIn) /\ UNCHANGED entered
    /\ isRunning' = FALSE
    /\ closed' = TRUE
    /\ UNCHANGED <<wrapper, stages, capacity, hold, egress, pusher, popper,
                   inExec>>

\* A worker loop that finds the running flag cleared after a failure
\* elsewhere lets go of the item it finished and returns (design document,
\* section 5: workers observe the flag between processing steps).
StageExit(i) ==
    /\ ~isRunning
    /\ hold[i] # <<>>
    /\ hold' = [hold EXCEPT ![i] = <<>>]
    /\ UNCHANGED <<wrapper, stages, queues, capacity, closed, isRunning,
                   idCounter, ordVars, entered, egress, pusher, popper, last,
                   inExec>>

\* ------------------------------------------------------------- GUI stop
\* The Gui was constructed with mThreadManager.getIsRunningSharedPtr()
\* (line 712): when its user asks to quit, the GUI worker of stage i, between
\* two items, clears the thread manager's running flag (design document,
\* section 6).
GuiStop(i) ==
    /\ isRunning
    /\ wrapper.spWGui # NULL
    /\ stages[i].workers = <<wrapper.spWGui>>
    /\ hold[i] = <<>>
    /\ isRunning' = FALSE
    /\ last' = [op |-> "WGui", ret |-> "quit"]
    /\ UNCHANGED <<wrapper, stages, queues, capacity, closed, hold, idCounter,
                   ordVars, entered, egress, pusher, popper, inExec>>

\* ------------------------------------------------------ specifications
\* No configure() has completed on the Wrapper, or reset() cleared it.
NotConfigured ==
    wrapper.spWCvMatToOpInput = NULL \/ wrapper.spWCvMatToOpOutput = NULL

UserWorkers == {NULL, "UserWorker"}

\* Spec: the calls an application makes on a Wrapper, from its constructor
\* on, in the behaviours in which the worker threads have not been
\* scheduled yet.  configure() is called with every combination of producer,
\* GUI and one saver, for one GPU; the user workers get their own thread.
ConfigureChoices ==
    {a \in ConfigureArgs :
        /\ a.gpuNumber = 1
        /\ a.write \in {{}, {"writePose"}}
        /\ ~a.renderOutput /\ ~a.guiVerbose
        /\ ~a.extractAndRenderFace /\ ~a.extractAndRenderHands
        /\ ~a.rescalePose /\ ~a.framesRepeat}

Next ==
    \/ \E wk \in UserWorkers : SetWorkerInput(wk, TRUE)
    \/ \E wk \in UserWorkers : SetWorkerOutput(wk, TRUE)
    \/ \E args \in ConfigureChoices : Configure(args)
    \/ Start
    \/ Exec
    \/ ExecReturn
    \/ Stop
    \/ \E op \in PushOps : PushCall(op)
    \/ PushWake
    \/ \E op \in PopOps : PopCall(op)
    \/ PopWake

Spec == Init /\ [][Next]_vars

\* SpecPipe: one run of a started pipeline, from start() to stop(), with the
\* worker threads, the application's pushes and pops and stop() interleaved
\* in every order.  The pipelines are those configure() builds for 0 to
\* MaxGpu pose replicas, fed by the producer and drained by the GUI in the
\* modes in which the application does not do it itself.
PipeModes == {"Synchronous", "Asynchronous"}

PipeArgs(mode, gpuNumber) ==
    [producerSharedPtr |-> ~IsAsyncIn(mode),
     gpuNumber |-> gpuNumber,
     renderOutput |-> FALSE,
     extractAndRenderFace |-> FALSE,
     extractAndRenderHands |-> FALSE,
     rescalePose |-> FALSE,
     write |-> {},
     displayGui |-> ~IsAsyncOut(mode),
     guiVerbose |-> FALSE,
     framesRepeat |-> FALSE]

PipeWrapper(mode, gpuNumber) == configure(Wrapper(mode), PipeArgs(mode, gpuNumber)).w

InitPipe ==
    \E mode \in PipeModes, gpuNumber \in 0..MaxGpu :
        LET r == configureThreadManager(PipeWrapper(mode, gpuNumber))
        IN  /\ r.err = NoError
            /\ wrapper = r.w
            /\ stages = r.stages
            /\ queues = SeqOfN(<<>>, MaxQueueOut(r.stages) + 1)
            /\ capacity \in 1..MaxCap
            /\ closed = FALSE
            /\ isRunning = TRUE
            /\ hold = SeqOfN(<<>>, Len(r.stages))
            /\ idCounter = 0
            /\ ordNext = 0
            /\ ordBuf = {}
            /\ entered = 0
            /\ egress = <<>>
            /\ pusher = "idle"
            /\ popper = "idle"
            /\ last = Returned("start", NoError)
            /\ inExec = FALSE

NextPipe ==
    \/ Workers
    \/ \E op \in PushOps : PushCall(op)
    \/ PushWake
    \/ \E op \in PopOps : PopCall(op)
    \/ PopWake
    \/ Stop

SpecPipe == InitPipe /\ [][NextPipe]_vars

\* SpecPipeFair: SpecPipe with the scheduling its condition variables give a
\* blocked caller: a waiting push or pop that can proceed (its queue has
\* space, has an item, or was closed) does proceed.
SpecPipeFair == SpecPipe /\ WF_vars(PushWake) /\ WF_vars(PopWake)

\* SpecFail: SpecPipe with workers that can fail, under the scheduling of
\* SpecPipeFair and of the worker threads: a worker loop that can return
\* does return.
NextFail ==
    \/ NextPipe
    \/ \E i \in 1..Len(stages) : StageFail(i)
    \/ \E i \in 1..Len(stages) : StageExit(i)

SpecFail ==
    /\ InitPipe /\ [][NextFail]_vars
    /\ WF_vars(PushWake) /\ WF_vars(PopWake)
    /\ WF_vars(\E i \in 1..Len(stages) : StageExit(i))

\* SpecLife: the life of a configured Wrapper of the SpecPipe family that is
\* started at most once: calls before start(), start(), the worker threads,
\* pushes, pops, stop() at any time, and finally the destructor, after
\* which nothing is called.  (Spec covers a Wrapper that is started again.)
InitLife ==
    \E mode \in PipeModes, gpuNumber \in 0..MaxGpu :
        /\ wrapper = PipeWrapper(mode, gpuNumber)
        /\ stages = <<>>
        /\ queues = <<>>
        /\ capacity \in 1..MaxCap
        /\ closed = FALSE
        /\ isRunning = FALSE
        /\ hold = <<>>
        /\ idCounter = 0
        /\ ordNext = 0
        /\ ordBuf = {}
        /\ entered = 0
        /\ egress = <<>>
        /\ pusher = "idle"
        /\ popper = "idle"
        /\ last = Returned("configure", NoError)
        /\ inExec = FALSE

NextLife ==
    \/ /\ last.op # "~Wrapper"
       /\ \/ stages = <<>> /\ Start
          \/ Workers
          \/ \E op \in PushOps : PushCall(op)
          \/ PushWake
          \/ \E op \in PopOps : PopCall(op)
          \/ PopWake
          \/ Stop
          \/ DestructorStop
    \/ DestructorReset

SpecLife == InitLife /\ [][NextLife]_vars

\* SpecGraph: every graph configureThreadManager builds.  A Wrapper of any
\* mode is set up by disableMultiThreading() or not, each of the three
\* setWorker calls or not (on a new thread or not) and then configure()
\* (producer or not, 0 to MaxGpu pose replicas, rendering or not, GUI or not,
\* one saver or none), which may throw; then it is started once and stopped.
GraphChoices ==
    {a \in ConfigureArgs :
        /\ a.write \in {{}, {"writePose"}}
        /\ ~a.guiVerbose
        /\ ~a.extractAndRenderFace /\ ~a.extractAndRenderHands
        /\ ~a.rescalePose /\ ~a.framesRepeat}

\* How a user worker is given: not at all, with workerOnNewThread = true, or
\* with workerOnNewThread = false.
UserWorkerChoices == {"none", "newThread", "sameThread"}

GraphWrapper(mode, multiThread, input, post, output, args) ==
    LET w0 == Wrapper(mode)
        w1 == IF multiThread THEN w0 ELSE disableMultiThreading(w0)
        w2 == IF input = "none" THEN w1
              ELSE setWorkerInput(w1, "UserWorker", input = "newThread").w
        w3 == IF post = "none" THEN w2
              ELSE setWorkerPostProcessing(w2, "UserWorker", post = "newThread").w
        w4 == IF output = "none" THEN w3
              ELSE setWorkerOutput(w3, "UserWorker", output = "newThread").w
    IN  configure(w4, args)

InitGraph ==
    \E mode \in Modes, multiThread \in BOOLEAN, args \in GraphChoices,
       input \in UserWorkerChoices, post \in UserWorkerChoices,
       output \in UserWorkerChoices :
        LET c == GraphWrapper(mode, multiThread, input, post, output, args)
        IN  /\ wrapper = c.w
            /\ last = Returned("configure", c.err)
            /\ stages = <<>>
            /\ queues = <<>>
            /\ capacity = 1
            /\ closed = FALSE
            /\ isRunning = FALSE
            /\ hold = <<>>
            /\ idCounter = 0
            /\ ordNext = 0
            /\ ordBuf = {}
            /\ entered = 0
            /\ egress = <<>>
            /\ pusher = "idle"
            /\ popper = "idle"
            /\ inExec = FALSE

NextGraph ==
    \/ last.op = "configure" /\ Start
    \/ last.op = "start" /\ Stop

SpecGraph == InitGraph /\ [][NextGraph]_vars

\* SpecPlace: SpecPipe for every thread placement of the stages: with or
\* without multi-threading, fed by the producer, by a user input worker (on
\* its own thread or not) or by the application, with or without a user
\* post-processing worker (on its own thread or not), for 0 to MaxGpu pose
\* replicas and queues of capacity 1.
InitPlace ==
    \E mode \in PipeModes, multiThread \in BOOLEAN, gpuNumber \in 0..MaxGpu,
       input \in UserWorkerChoices, post \in UserWorkerChoices :
        LET args == [PipeArgs(mode, gpuNumber) EXCEPT
                        !.producerSharedPtr = ~IsAsyncIn(mode) /\ input = "none"]
            c == GraphWrapper(mode, multiThread, input, post, "none", args)
            r == configureThreadManager(c.w)
        IN  /\ IsAsyncIn(mode) => input = "none"
            /\ c.err = NoError
            /\ r.err = NoError
            /\ wrapper = r.w
            /\ stages = r.stages
            /\ queues = SeqOfN(<<>>, MaxQueueOut(r.stages) + 1)
            /\ capacity = 1
            /\ closed = FALSE
            /\ isRunning = TRUE
            /\ hold = SeqOfN(<<>>, Len(r.stages))
            /\ idCounter = 0
            /\ ordNext = 0
            /\ ordBuf = {}
            /\ entered = 0
            /\ egress = <<>>
            /\ pusher = "idle"
            /\ popper = "idle"
            /\ last = Returned("start", NoError)
            /\ inExec = FALSE

SpecPlace == InitPlace /\ [][NextPipe]_vars

\* SpecRender: configure() with every combination of pose rendering, hand
\* and face extraction and rendering, producer and GUI, for 0 to MaxGpu
\* GPUs, on a Wrapper of any mode, once or repeatedly.
RenderChoices ==
    {a \in ConfigureArgs :
        /\ a.write = {}
        /\ ~a.guiVerbose /\ ~a.rescalePose /\ ~a.framesRepeat}

NextRender == \E args \in RenderChoices : Configure(args)

SpecRender == Init /\ [][NextRender]_vars

\* SpecModes: SpecPipe for each of the four modes, with one pose replica:
\* the producer feeds the pipeline unless the mode has asynchronous input,
\* the GUI drains it unless the mode has asynchronous output.
InitModes ==
    \E mode \in Modes :
        LET r == configureThreadManager(PipeWrapper(mode, 1))
        IN  /\ r.err = NoError
            /\ wrapper = r.w
            /\ stages = r.stages
            /\ queues = SeqOfN(<<>>, MaxQueueOut(r.stages) + 1)
            /\ capacity \in 1..MaxCap
            /\ closed = FALSE
            /\ isRunning = TRUE
            /\ hold = SeqOfN(<<>>, Len(r.stages))
            /\ idCounter = 0
            /\ ordNext = 0
            /\ ordBuf = {}
            /\ entered = 0
            /\ egress = <<>>
            /\ pusher = "idle"
            /\ popper = "idle"
            /\ last = Returned("start", NoError)
            /\ inExec = FALSE

SpecModes == InitModes /\ [][NextPipe]_vars

\* SpecRestart: a Wrapper configured once, with more than one pose replica,
\* that is started, stopped and started again any number of times, with the
\* worker threads, pushes and pops of each run.
InitRestart ==
    \E mode \in PipeModes, gpuNumber \in 2..MaxGpu :
        /\ wrapper = PipeWrapper(mode, gpuNumber)
        /\ stages = <<>>
        /\ queues = <<>>
        /\ capacity = 1
        /\ closed = FALSE
        /\ isRunning = FALSE
        /\ hold = <<>>
        /\ idCounter = 0
        /\ ordNext = 0
        /\ ordBuf = {}
        /\ entered = 0
        /\ egress = <<>>
        /\ pusher = "idle"
        /\ popper = "idle"
        /\ last = Returned("configure", NoError)
        /\ inExec = FALSE

NextRestart ==
    \/ ~isRunning /\ Start
    \/ Workers
    \/ \E op \in PushOps : PushCall(op)
    \/ PushWake
    \/ \E op \in PopOps : PopCall(op)
    \/ PopWake
    \/ Stop

SpecRestart == InitRestart /\ [][NextRestart]_vars

\* SpecOrder: one run, from start() to stop(), of a pipeline with more than
\* one pose replica, fed by the producer with up to MaxBurst items and
\* drained by the GUI, with bounded queues and a scheduler that is fair to
\* every worker thread: a worker loop that can take or push an item
\* eventually does.
InitOrder ==
    \E gpuNumber \in 2..MaxGpu :
        LET r == configureThreadManager(PipeWrapper("Synchronous", gpuNumber))
        IN  /\ r.err = NoError
            /\ wrapper = r.w
            /\ stages = r.stages
            /\ queues = SeqOfN(<<>>, MaxQueueOut(r.stages) + 1)
            /\ capacity \in 1..MaxCap
            /\ closed = FALSE
            /\ isRunning = TRUE
            /\ hold = SeqOfN(<<>>, Len(r.stages))
            /\ idCounter = 0
            /\ ordNext = 0
            /\ ordBuf = {}
            /\ entered = 0
            /\ egress = <<>>
            /\ pusher = "idle"
            /\ popper = "idle"
            /\ last = Returned("start", NoError)
            /\ inExec = FALSE

\* The stages of the largest graph of SpecOrder: input, the replicas, the
\* orderer's stage, the GUI.
MaxStages == MaxGpu + 3

NextOrder ==
    \/ \E i \in 1..Len(stages) : StageTakeUpTo(i, MaxBurst)
    \/ \E i \in 1..Len(stages) : StagePut(i)
    \/ Stop

SpecOrder ==
    /\ InitOrder /\ [][NextOrder]_vars
    /\ \A i \in 1..MaxStages :
          WF_vars(i <= Len(stages) /\ (StageTakeUpTo(i, MaxBurst) \/ StagePut(i)))

\* SpecGui: a Wrapper configured with producer, 0 to MaxGpu pose replicas
\* and the GUI is run once, by exec() or by start(), until the GUI or
\* stop() ends the run; a worker loop that can return does return, and so
\* does exec() once the pipeline has stopped.
InitGui ==
    \E gpuNumber \in 0..MaxGpu :
        /\ wrapper = PipeWrapper("Synchronous", gpuNumber)
        /\ stages = <<>>
        /\ queues = <<>>
        /\ capacity \in 1..MaxCap
        /\ closed = FALSE
        /\ isRunning = FALSE
        /\ hold = <<>>
        /\ idCounter = 0
        /\ ordNext = 0
        /\ ordBuf = {}
        /\ entered = 0
        /\ egress = <<>>
        /\ pusher = "idle"
        /\ popper = "idle"
        /\ last = Returned("configure", NoError)
        /\ inExec = FALSE

NextGui ==
    \/ stages = <<>> /\ Start
    \/ stages = <<>> /\ Exec
    \/ ExecReturn
    \/ Workers
    \/ \E i \in 1..Len(stages) : GuiStop(i)
    \/ \E i \in 1..Len(stages) : StageExit(i)
    \/ Stop

SpecGui ==
    /\ InitGui /\ [][NextGui]_vars
    /\ WF_vars(ExecReturn)
    /\ WF_vars(\E i \in 1..Len(stages) : StageExit(i))

\* SpecDestroy: the life of a configured Wrapper up to its destruction, for
\* every way of feeding it of SpecPlace and with or without user
\* post-processing and output workers (both on their own threads or both
\* not): start(), the worker threads, pushes, pops, stop() at any time, and
\* the destructor (stop(), then reset()) from any of these states.
InitDestroy ==
    \E mode \in PipeModes, multiThread \in BOOLEAN, gpuNumber \in 0..MaxGpu,
       input \in UserWorkerChoices, user \in UserWorkerChoices :
        LET args == [PipeArgs(mode, gpuNumber) EXCEPT
                        !.producerSharedPtr = ~IsAsyncIn(mode) /\ input = "none"]
            c == GraphWrapper(mode, multiThread, input, user, user, args)
        IN  /\ IsAsyncIn(mode) => input = "none"
            /\ c.err = NoError
            /\ wrapper = c.w
            /\ stages = <<>>
            /\ queues = <<>>
            /\ capacity = 1
            /\ closed = FALSE
            /\ isRunning = FALSE
            /\ hold = <<>>
            /\ idCounter = 0
            /\ ordNext = 0
            /\ ordBuf = {}
            /\ entered = 0
            /\ egress = <<>>
            /\ pusher = "idle"
            /\ popper = "idle"
            /\ last = Returned("configure", NoError)
            /\ inExec = FALSE

NextDestroy ==
    \/ /\ last.op # "~Wrapper"
       /\ \/ last.op = "configure" /\ Start
          \/ Workers
          \/ \E op \in PushOps : PushCall(op)
          \/ PushWake
          \/ \E op \in PopOps : PopCall(op)
          \/ PopWake
          \/ Stop
          \/ DestructorStop
    \/ DestructorReset

SpecDestroy == InitDestroy /\ [][NextDestroy]_vars

\* SpecWrite: configure() with every combination of the writing options,
\* frame repetition, pose rendering, producer and GUI, without GPUs, on a
\* Wrapper of any mode with or without a user output worker, until one
\* call succeeds.
WriteChoices ==
    {a \in ConfigureArgs :
        /\ a.gpuNumber = 0
        /\ ~a.guiVerbose /\ ~a.rescalePose
        /\ ~a.extractAndRenderFace /\ ~a.extractAndRenderHands}

NextWrite ==
    \/ \E wk \in UserWorkers : SetWorkerOutput(wk, TRUE)
    \/ \E args \in WriteChoices : NotConfigured /\ Configure(args)

SpecWrite == Init /\ [][NextWrite]_vars

\* SpecSet: every sequence of setWorkerInput, setWorkerPostProcessing and
\* setWorkerOutput calls on a Wrapper of any mode, each with a null worker
\* or one of two workers, and with workerOnNewThread true or false.
SomeUserWorkers == {NULL, "UserWorker", "OtherUserWorker"}

NextSet ==
    \/ \E wk \in SomeUserWorkers, nt \in BOOLEAN : SetWorkerInput(wk, nt)
    \/ \E wk \in SomeUserWorkers, nt \in BOOLEAN : SetWorkerPostProcessing(wk, nt)
    \/ \E wk \in SomeUserWorkers, nt \in BOOLEAN : SetWorkerOutput(wk, nt)

SpecSet == Init /\ [][NextSet]_vars

\* SpecRegraph: SpecGraph with a second graph build: after start() and
\* stop(), exec() builds the graph again and runs it until stop().
NextRegraph ==
    \/ last.op = "configure" /\ Start
    \/ last.op = "start" /\ Stop
    \/ last.op = "stop" /\ Exec
    \/ last.op = "exec" /\ inExec /\ Stop
    \/ ExecReturn

SpecRegraph == InitGraph /\ [][NextRegraph]_vars

\* ============================================================ properties
\* The 1st, 2nd, ... item that entered, as many as have left.
InOrder(seq) == seq = [i \in 1..Len(seq) |-> i]

\* C1 (SpecPipe): with a pose group of more than one replica, whatever the
\* order in which the replicas finish, the items leave the pipeline in the
\* order in which they entered it.
C1_EgressInIngressOrder ==
    Len(wrapper.spWPoses) > 1 => InOrder(egress)

\* C1: a replica overtook another (the orderer holds an item back) after an
\* item already left.
C1_Witness ==
    /\ Len(wrapper.spWPoses) > 1
    /\ ordBuf # {}
    /\ egress # <<>>

\* How many of the three ways to feed queue 0 are selected.
inputsSelected ==
    (IF wrapper.wDatumProducer # NULL THEN 1 ELSE 0)
    + (IF wrapper.mUserInputWs # <<>> THEN 1 ELSE 0)
    + (IF IsAsyncIn(wrapper.mThreadManagerMode) THEN 1 ELSE 0)

\* How many of the four ways to drain the last queue are selected.
outputsSelected ==
    (IF wrapper.mOutputWs # <<>> THEN 1 ELSE 0)
    + (IF wrapper.mUserOutputWs # <<>> THEN 1 ELSE 0)
    + (IF wrapper.spWGui # NULL THEN 1 ELSE 0)
    + (IF IsAsyncOut(wrapper.mThreadManagerMode) THEN 1 ELSE 0)

\* The last call was start() or exec(); the configuration is still the one
\* it saw, since every call that changes it is recorded in last.
Launched == last.op \in {"start", "exec"}

\* C2 (Spec), as stated: start()/exec() raise an error unless exactly one of
\* built-in producer, user input worker and asynchronous-input mode is
\* selected.
C2_ExactlyOneInputOrError ==
    Launched /\ inputsSelected # 1 => last.ret \in Errors

C4_PushRejectedWithUserInput ==
    /\ [][\A op \in PushOps :
            PushCall(op) /\ wrapper.mUserInputWs # <<>>
                => /\ last'.op = op
                   /\ last'.ret \in Errors
                   /\ UNCHANGED <<queues, entered, pusher>>]_vars
    /\ [](/\ Launched
          /\ ~IsAsyncIn(wrapper.mThreadManagerMode)
          /\ wrapper.wDatumProducer = NULL
          /\ wrapper.mUserInputWs = <<>>
          => last.ret \in Errors)

\* C4: a push call threw on a running pipeline that is fed by a user input
\* worker.
C4_Witness ==
    /\ last.op \in PushOps
    /\ last.ret = "InputWorkerSelected"
    /\ wrapper.mUserInputWs # <<>>
    /\ isRunning

\* C5 (Spec), as stated: with the built-in producer configured and no user
\* input worker, each of the four push calls throws.
C5_PushRejectedWithProducer ==
    [][\A op \in PushOps :
          /\ PushCall(op)
          /\ wrapper.wDatumProducer # NULL
          /\ wrapper.mUserInputWs = <<>>
          => last'.op = op /\ last'.ret \in Errors]_vars

\* C6 (Spec), as stated: with a user output worker, built-in output workers
\* or the GUI configured, tryPop and waitAndPop throw.
C6_PopRejectedWithConsumer ==
    [][\A op \in PopOps :
          /\ PopCall(op)
          /\ \/ wrapper.mUserOutputWs # <<>>
             \/ wrapper.mOutputWs # <<>>
             \/ wrapper.spWGui # NULL
          => last'.op = op /\ last'.ret \in Errors]_vars

\* The application may push: asynchronous input, no user input worker, the
\* queues exist.
PushAllowed ==
    /\ IsAsyncIn(wrapper.mThreadManagerMode)
    /\ wrapper.mUserInputWs = <<>>
    /\ queues # <<>>

\* C7 (SpecPipe): tryEmplace and tryPush on a full queue 0, or after stop(),
\* return false at once and leave every queue as it was.
C7_TryPushFailsWithoutEffect ==
    [][\A op \in {"tryEmplace", "tryPush"} :
          /\ PushCall(op)
          /\ PushAllowed
          /\ closed \/ Len(Queue(0)) >= capacity
          => /\ last' = [op |-> op, ret |-> "false"]
             /\ pusher' = "idle"
             /\ UNCHANGED <<queues, entered>>]_vars

\* C7: tryEmplace returned false on a full queue 0 of a running pipeline.
C7_Witness ==
    /\ last = [op |-> "tryEmplace", ret |-> "false"]
    /\ ~closed
    /\ Len(Queue(0)) = capacity

\* C8 (SpecPipeFair): a waitAndEmplace/waitAndPush blocked on a full queue 0,
\* or a waitAndPop blocked on an empty last queue, when stop() is called,
\* returns false, and the return inserts and retrieves nothing.
C8_StopReleasesBlockedCalls ==
    /\ \A op \in {"waitAndEmplace", "waitAndPush"} :
          (pusher = op /\ last.op = "stop")
              ~> (pusher = "idle" /\ last = [op |-> op, ret |-> "false"])
    /\ (popper = "waitAndPop" /\ last.op = "stop" /\ Queue(LastQueue) = <<>>)
          ~> (popper = "idle" /\ last = [op |-> "waitAndPop", ret |-> "false"])
    /\ [][/\ closed
          /\ \/ pusher # "idle" /\ pusher' = "idle"
             \/ popper # "idle" /\ popper' = "idle" /\ Queue(LastQueue) = <<>>
          => last'.ret = "false" /\ UNCHANGED <<queues, entered, egress>>]_vars

\* C8: stop() was called while a push waits on the full queue 0 and a pop
\* waits on the empty last queue.
C8_Witness ==
    /\ pusher # "idle"
    /\ popper # "idle"
    /\ last.op = "stop"
    /\ closed
    /\ Len(Queue(0)) = capacity
    /\ Queue(LastQueue) = <<>>

\* Queues of capacity 1 around a single stage (no pose replica, no GUI).
OneStagePipe == capacity = 1 /\ Len(stages) = 1

\* C9 (SpecPipeFair): with capacity 1 and one stage, a waitAndPush on the
\* full queue 0 waits; an item enters only once the item before it was
\* taken from queue 0; a waiting push returns once queue 0 has space; and the
\* items leave in the order in which they entered.
C9_BackPressure ==
    /\ [][OneStagePipe /\ PushCall("waitAndPush") /\ PushAllowed
             /\ ~closed /\ Len(Queue(0)) >= capacity
          => pusher' = "waitAndPush" /\ UNCHANGED <<queues, entered>>]_vars
    /\ [][OneStagePipe /\ entered' = entered + 1 => Queue(0) = <<>>]_vars
    /\ (OneStagePipe /\ pusher = "waitAndPush" /\ ~closed /\ Queue(0) = <<>>)
          ~> (pusher = "idle")
    /\ [](OneStagePipe => InOrder(egress))

\* C9: the first item left, the second fills queue 0 and the push of the
\* third waits.
C9_Witness ==
    /\ OneStagePipe
    /\ pusher = "waitAndPush"
    /\ egress = <<1>>
    /\ Len(Queue(0)) = 1

\* C10 (SpecPipe): no queue ever holds more than capacity items, and once
\* the queues are closed no queue gains an item.
C10_BoundedAndClosed ==
    /\ [](\A k \in 1..Len(queues) : Len(queues[k]) <= capacity)
    /\ [][closed => \A k \in 1..Len(queues) : Len(queues'[k]) <= Len(queues[k])]_vars

\* C10: the queues were closed while queue 0 was full and the application
\* had more to push.
C10_Witness ==
    /\ closed
    /\ Len(Queue(0)) = capacity
    /\ entered < MaxItems
    /\ last.op \in PushOps /\ last.ret = "false"

\* The application may pop: asynchronous output, no user output worker, the
\* queues exist.
PopAllowed ==
    /\ IsAsyncOut(wrapper.mThreadManagerMode)
    /\ wrapper.mUserOutputWs = <<>>
    /\ queues # <<>>

C12_PopFailsOnceStopped ==
    [][\A op \in PopOps :
          PopCall(op) /\ PopAllowed /\ closed
          => /\ last' = [op |-> op, ret |-> "false"]
             /\ UNCHANGED <<queues, egress>>]_vars

\* A step of start() or exec() (up to the return of configureThreadManager
\* and the spawning of the threads), and a step of stop(), told by the call
\* they record; a boundary call that starts to wait records nothing but
\* changes pusher or popper.
LaunchStep ==
    /\ ~inExec
    /\ last'.op \in {"start", "exec"}
    /\ UNCHANGED <<pusher, popper>>

StopStep ==
    /\ last'.op = "stop"
    /\ UNCHANGED <<pusher, popper, inExec>>

\* C13 (Spec), as stated: isRunning() is true after a successful start() or
\* exec() until stop(), and false in every other state: after construction,
\* after stop(), after a failed start()/exec(), after exec() returned.
C13_RunningIffStartedAndNotStopped ==
    /\ last.op = "Wrapper" => ~wrapperIsRunning
    /\ last.op = "stop" => ~wrapperIsRunning
    /\ last.op \in {"start", "exec"} /\ last.ret \in Errors => ~wrapperIsRunning
    /\ last = [op |-> "exec", ret |-> "returned"] => ~wrapperIsRunning
    /\ last = [op |-> "start", ret |-> "returned"] => wrapperIsRunning
    /\ last = [op |-> "exec", ret |-> "running"] => wrapperIsRunning

\* C13 (Spec), amended: isRunning() is false after construction, becomes
\* true when start()/exec() succeed, becomes false with stop() and with a
\* start()/exec() that throws after the thread manager was reset, and is
\* left as it is by every other call, a start()/exec() that the security
\* checks reject included.
C13_IsRunningFollowsLifecycle ==
    /\ [](last.op = "Wrapper" => ~wrapperIsRunning)
    /\ [][/\ LaunchStep =>
               LET r == configureThreadManager(wrapper)
               IN  IF r.err = NoError THEN wrapperIsRunning'
                   ELSE IF r.reset THEN ~wrapperIsRunning'
                   ELSE wrapperIsRunning' = wrapperIsRunning
          /\ StopStep => ~wrapperIsRunning'
          /\ ~LaunchStep /\ ~StopStep => wrapperIsRunning' = wrapperIsRunning]_vars

\* C13: start() was rejected by the security checks while the pipeline of
\* an earlier start() runs, which keeps running.
C13_Witness ==
    /\ last.op = "start"
    /\ last.ret \in {"NeedOneProducer", "NoOutputSelected"}
    /\ wrapperIsRunning
    /\ ~closed

\* A step of stop(), called by the application or by the destructor.
AnyStopStep ==
    /\ \/ last'.op = "stop"
       \/ last' = [op |-> "~Wrapper", ret |-> "stopped"]
    /\ UNCHANGED <<pusher, popper, inExec>>

\* The pipeline is stopped: the flag is false, no worker thread holds an
\* item, and the queues, if there are any, are closed.
Stopped ==
    /\ ~isRunning
    /\ \A i \in 1..Len(hold) : hold[i] = <<>>
    /\ queues # <<>> => closed

\* C14 (SpecLife): stop() can be called in every state and leaves the
\* pipeline stopped (flag false, queues closed, worker threads joined)
\* without touching the queues' contents; on a pipeline that is stopped or
\* was never started it changes nothing.  The same holds of the stop() the
\* destructor makes before reset().
C14_StopIdempotent ==
    /\ [](last.op # "~Wrapper" => ENABLED Stop)
    /\ [](last.op = "stop" \/ last = [op |-> "~Wrapper", ret |-> "stopped"]
            => Stopped)
    /\ [][AnyStopStep =>
            /\ Stopped'
            /\ UNCHANGED <<wrapper, stages, queues, ordVars, entered, egress>>
            /\ Stopped => UNCHANGED <<closed, isRunning, hold>>]_vars

\* C14: stop() returned on a Wrapper that was never started.
C14_Witness ==
    /\ last.op = "stop"
    /\ queues = <<>>
    /\ stages = <<>>
    /\ Stopped

\* C15 (Spec): exec() and start() build the same graph, the one
\* configureThreadManager gives for the configuration; exec() has not
\* returned while the pipeline runs and the pipeline is stopped when it
\* returns; start() returns with the pipeline running and before any item
\* entered or left it.
C15_ExecBlocksStartDoesNot ==
    /\ last.op \in {"start", "exec"} /\ last.ret \in {"returned", "running"}
          => stages = configureThreadManager(wrapper).stages
    /\ last = [op |-> "exec", ret |-> "running"] => inExec /\ isRunning
    /\ last = [op |-> "exec", ret |-> "returned"] => ~inExec /\ ~isRunning
    /\ last = [op |-> "start", ret |-> "returned"]
          => /\ ~inExec
             /\ isRunning
             /\ entered = 0
             /\ egress = <<>>
             /\ \A k \in 1..Len(queues) : queues[k] = <<>>

\* C15: exec() returned after the pipeline it started was stopped.
C15_Witness ==
    /\ last = [op |-> "exec", ret |-> "returned"]
    /\ stages # <<>>
    /\ closed

\* C17 (Spec): start()/exec() on a Wrapper on which no configure() has
\* completed throw "Configure the Wrapper class before calling `start()`."
\* and leave the thread manager as it was (no thread is started); a Wrapper
\* cleared by reset() is in that case.
C17_UnconfiguredStartRejected ==
    /\ [][LaunchStep /\ NotConfigured
            => /\ last'.ret = "NotConfigured"
               /\ ~isRunning'
               /\ UNCHANGED <<wrapper, tmVars, inExec>>]_vars
    /\ [](securityChecks(reset(wrapper)) = "NotConfigured")
    /\ [](NotConfigured => ~isRunning /\ stages = <<>>)

\* C17: start() threw on a Wrapper that has a user input and a user output
\* worker but was never configured.
C17_Witness ==
    /\ last = [op |-> "start", ret |-> "NotConfigured"]
    /\ wrapper.mUserInputWs # <<>>
    /\ wrapper.mUserOutputWs # <<>>
    /\ queues = <<>>

\* start() was called (and stop() perhaps after it): stages is the graph
\* configureThreadManager built, as far as it got.
GraphBuilt == last.op \in {"start", "stop"}

\* C18 (SpecGraph), as stated: after disableMultiThreading() every stage
\* configureThreadManager registers carries the same thread id.
C18_OneThreadWhenDisabled ==
    GraphBuilt /\ ~wrapper.mMultiThreadEnabled
        => \A i, j \in 1..Len(stages) : stages[i].threadId = stages[j].threadId

\* C19 (SpecGraph), as stated: for a configuration that passes the security
\* checks every registration has its input queue index below its output
\* queue index and a thread id not below the one registered before it, and
\* start() does not throw.
C19_GraphConstructionSucceeds ==
    last.op = "start" /\ securityChecks(wrapper) = NoError
        => /\ last.ret = "returned"
           /\ \A i \in 1..Len(stages) : stages[i].queueIn < stages[i].queueOut
           /\ \A i \in 1..(Len(stages) - 1) :
                 stages[i].threadId <= stages[i + 1].threadId

\* Stage i is one replica of the pose group.
IsPoseReplica(i) ==
    \E k \in 1..Len(wrapper.spWPoses) : stages[i].workers = wrapper.spWPoses[k]

\* C20 (SpecGraph): in every graph configureThreadManager builds, each
\* stage writes the queue after the one it reads, the first stage reads
\* queue 0, each further stage reads the queue its predecessor writes or, as
\* a pose replica following a pose replica, the queue its predecessor reads;
\* two stages share their queues only if both are pose replicas.
C20_LinearGraph ==
    GraphBuilt =>
        /\ \A i \in 1..Len(stages) : stages[i].queueOut = stages[i].queueIn + 1
        /\ stages # <<>> => stages[1].queueIn = 0
        /\ \A i \in 1..(Len(stages) - 1) :
              \/ stages[i + 1].queueIn = stages[i].queueOut
              \/ /\ stages[i + 1].queueIn = stages[i].queueIn
                 /\ IsPoseReplica(i) /\ IsPoseReplica(i + 1)
        /\ \A i, j \in 1..Len(stages) :
              i # j /\ stages[i].queueIn = stages[j].queueIn
                  => IsPoseReplica(i) /\ IsPoseReplica(j)

\* C20: a started graph with two pose replicas between a user input stage
\* and the GUI stage.
C20_Witness ==
    /\ last = [op |-> "start", ret |-> "returned"]
    /\ Len(wrapper.spWPoses) = 2
    /\ wrapper.mMultiThreadEnabled
    /\ wrapper.mUserInputWs # <<>>
    /\ wrapper.spWGui # NULL
    /\ Len(stages) >= 6
    /\ \E i \in 1..(Len(stages) - 1) : stages[i].queueIn = stages[i + 1].queueIn

\* A worker of a pose replica raised the failure last reported.
ReplicaFailed ==
    /\ last.ret = "StageFailure"
    /\ \E i \in 1..Len(stages) :
          /\ IsPoseReplica(i)
          /\ \E k \in 1..Len(stages[i].workers) : last.op = stages[i].workers[k]

\* Item x is in none of the queues qs and in none of the hands hs.
NotInPipeline(x, qs, hs) ==
    /\ \A k \in 1..Len(qs) : \A n \in 1..Len(qs[k]) : qs[k][n].data # x.data
    /\ \A j \in 1..Len(hs) : \A n \in 1..Len(hs[j]) : hs[j][n].data # x.data

\* C16 (SpecFail): when a worker of a pose replica fails, the running flag
\* is false and the failure is reported at once, and the failed item is in
\* no queue and no worker's hands; from then on the flag stays false, no
\* queue gains an item and no worker takes one, and every worker that still
\* holds an item, peer replicas included, eventually lets go of it and ends.
C16_ReplicaFailureIsFatal ==
    /\ [][\A i \in 1..Len(stages) :
            IsPoseReplica(i) /\ StageFail(i)
                => /\ ~wrapperIsRunning'
                   /\ closed'
                   /\ last'.ret = "StageFailure"
                   /\ NotInPipeline(StageInput(i), queues', hold')]_vars
    /\ [][~isRunning
            => /\ ~isRunning'
               /\ \A k \in 1..Len(queues) : Len(queues'[k]) <= Len(queues[k])
               /\ \A j \in 1..Len(hold) : hold[j] = <<>> => hold'[j] = <<>>]_vars
    /\ ReplicaFailed ~> (~isRunning /\ \A j \in 1..Len(hold) : hold[j] = <<>>)

\* C16: one of two pose replicas failed while its peer holds an item it
\* finished.
C16_Witness ==
    /\ ReplicaFailed
    /\ ~isRunning
    /\ Len(wrapper.spWPoses) >= 2
    /\ \E j \in 1..Len(stages) : IsPoseReplica(j) /\ hold[j] # <<>>

\* The workers of stages i, i + 1, ... in one list.
RECURSIVE WorkersFrom(_)
WorkersFrom(i) ==
    IF i > Len(stages) THEN <<>> ELSE stages[i].workers \o WorkersFrom(i + 1)

\* The stages that contain the id generator.
IdGeneratorStages ==
    {i \in 1..Len(stages) :
        \E k \in 1..Len(stages[i].workers) : stages[i].workers[k] = "WIdGenerator"}

\* What feeds the pipeline: the user input workers, else the producer, else
\* (asynchronous input) nothing.
IngressWorkers ==
    IF wrapper.mUserInputWs # <<>> THEN wrapper.mUserInputWs
    ELSE IF wrapper.wDatumProducer # NULL THEN <<wrapper.wDatumProducer>>
    ELSE <<>>

\* Item x has the id of its position at ingress, counted from 0.
HasIngressId(x) == x.id = x.data - 1

\* C21 (SpecPlace): the workers of the graph, in stage order, are the
\* ingress workers, then the id generator, then workers none of which is an
\* id generator; the id generator's stage writes a queue that no pose
\* replica reads from below; every item downstream of that stage (in a
\* queue, in a worker's hands, in the orderer) carries the id of its ingress
\* position, counted from 0, every item upstream carries none, and the
\* generator has given out as many ids as items passed it.
C21_OneIdGeneratorBeforeFanOut ==
    /\ Cardinality(IdGeneratorStages) = 1
    /\ LET all == WorkersFrom(1)
           n == Len(IngressWorkers)
       IN  /\ Len(all) > n
           /\ SubSeq(all, 1, n) = IngressWorkers
           /\ all[n + 1] = "WIdGenerator"
           /\ \A k \in (n + 2)..Len(all) : all[k] # "WIdGenerator"
    /\ \A g \in IdGeneratorStages :
          /\ \A i \in 1..Len(stages) :
                IsPoseReplica(i) => stages[g].queueOut <= stages[i].queueIn
          /\ \A k \in 0..LastQueue : \A n \in 1..Len(Queue(k)) :
                IF k >= stages[g].queueOut
                THEN HasIngressId(Queue(k)[n])
                ELSE Queue(k)[n].id = -1
          /\ \A i \in 1..Len(stages) : \A n \in 1..Len(hold[i]) :
                IF stages[i].queueOut >= stages[g].queueOut
                THEN HasIngressId(hold[i][n])
                ELSE hold[i][n].id = -1
          /\ \A x \in ordBuf : HasIngressId(x)
          /\ idCounter <= entered
          /\ \A i \in 1..Len(stages) : \A n \in 1..Len(hold[i]) :
                stages[i].queueOut >= stages[g].queueOut
                    => hold[i][n].data <= idCounter
          /\ \A n \in 1..Len(hold[g]) : hold[g][n].data <= idCounter

\* C21: two pose replicas, fed through a user input worker on its own
\* thread, each hold an item, with the ids 0 and 1.
C21_Witness ==
    /\ wrapper.mUserInputWs # <<>>
    /\ wrapper.mUserInputWsOnNewThread
    /\ \E i, j \in 1..Len(stages) :
          /\ i # j /\ IsPoseReplica(i) /\ IsPoseReplica(j)
          /\ hold[i] # <<>> /\ hold[j] # <<>>
          /\ hold[i][1].id = 0 /\ hold[j][1].id = 1

\* The stages that contain the WQueueOrderer.
QueueOrdererStages ==
    {i \in 1..Len(stages) :
        \E k \in 1..Len(stages[i].workers) : stages[i].workers[k] = "WQueueOrderer"}

\* The pose replicas registered with the thread manager.
PoseReplicaStages == {i \in 1..Len(stages) : IsPoseReplica(i)}

\* C22 (SpecGraph): in every graph built, a stage contains the
\* WQueueOrderer if and only if more than one pose replica is registered;
\* then exactly one stage contains it, as its first worker and nowhere
\* else, and that stage is the only one that reads the queue the replicas
\* write.
C22_OrdererIffGroupAboveOne ==
    GraphBuilt =>
        /\ (QueueOrdererStages # {}) <=> (Cardinality(PoseReplicaStages) > 1)
        /\ QueueOrdererStages # {}
              => /\ Cardinality(QueueOrdererStages) = 1
                 /\ \A g \in QueueOrdererStages :
                       /\ stages[g].workers[1] = "WQueueOrderer"
                       /\ \A k \in 2..Len(stages[g].workers) :
                             stages[g].workers[k] # "WQueueOrderer"
                       /\ \A i \in PoseReplicaStages :
                             stages[i].queueOut = stages[g].queueIn
                       /\ \A j \in 1..Len(stages) :
                             stages[j].queueIn = stages[g].queueIn => j = g

RendererWorkers == {"WPoseRenderer", "WHandRenderer", "WFaceRenderer"}

IsRendererWorker(worker) == worker \in RendererWorkers

\* The renderers of replica i in the order in which its workers run.
RenderersInWorkerOrder(i) ==
    LET names == SelectSeq(wrapper.spWPoses[i], IsRendererWorker)
    IN  [k \in 1..Len(names) |->
            CHOOSE r \in {wrapper.renderers[i][n] : n \in 1..Len(wrapper.renderers[i])} :
                r.worker = names[k]]

\* The life of the shared buffer over one item (design document, section
\* 4.4): the owner allocates it, every renderer working on it needs it
\* allocated, the releaser frees it after its own use.  "error" stands for a
\* second allocation or a use of a buffer not allocated or already freed.
RECURSIVE bufferRun(_, _)
bufferRun(rs, buf) ==
    IF rs = <<>> THEN buf
    ELSE LET r == Head(rs)
             allocated == IF ~r.first THEN buf
                          ELSE IF buf = "unallocated" THEN "allocated" ELSE "error"
             used == IF allocated = "allocated" THEN "allocated" ELSE "error"
             freed == IF r.last = "true" /\ used = "allocated" THEN "freed" ELSE used
         IN  IF r.first \/ r.gpuMemory # "own"
             THEN bufferRun(Tail(rs), freed)
             ELSE bufferRun(Tail(rs), buf)

\* C23 (SpecRender): in every replica configure() builds, every renderer
\* belongs to a worker; if no renderer was handed another's buffer, none is
\* marked first or last; otherwise exactly one renderer is marked first,
\* the pose renderer, the others work on its buffer, exactly one renderer
\* is marked last, the one whose worker runs last, every renderer on the
\* buffer runs after the owner, and over one item the buffer is allocated
\* once, used only while allocated and freed once, at the end.
C23_OneOwnerOneReleaser ==
    /\ Len(wrapper.renderers) = Len(wrapper.spWPoses)
    /\ \A i \in 1..Len(wrapper.spWPoses) :
          LET rs == RenderersInWorkerOrder(i)
              sharers == {k \in 1..Len(rs) : rs[k].gpuMemory # "own"}
              owners == {k \in 1..Len(rs) : rs[k].first}
              releasers == {k \in 1..Len(rs) : rs[k].last = "true"}
          IN  /\ Len(rs) = Len(wrapper.renderers[i])
              /\ sharers = {} => owners = {} /\ releasers = {}
              /\ sharers # {}
                    => /\ Cardinality(owners) = 1
                       /\ \A o \in owners :
                             /\ rs[o].worker = "WPoseRenderer"
                             /\ rs[o].gpuMemory = "own"
                             /\ \A k \in sharers :
                                   o < k /\ rs[k].gpuMemory = rs[o].worker
                       /\ releasers = {Len(rs)}
                       /\ bufferRun(rs, "unallocated") = "freed"

\* C23: configure() built two replicas with pose, hand and face renderers
\* on one buffer.
C23_Witness ==
    /\ last = [op |-> "configure", ret |-> "returned"]
    /\ Len(wrapper.spWPoses) = 2
    /\ \A i \in 1..2 :
          /\ Len(wrapper.renderers[i]) = 3
          /\ \A n \in 2..3 : wrapper.renderers[i][n].gpuMemory = "WPoseRenderer"

\* How many times the item that entered as the d-th is in the pipeline or
\* has left it: in a queue, in a worker's hands, in the orderer, at egress.
Occurrences(d) ==
    Cardinality({p \in (1..Len(queues)) \X (1..capacity) :
                    /\ p[2] <= Len(queues[p[1]])
                    /\ queues[p[1]][p[2]].data = d})
    + Cardinality({p \in (1..Len(hold)) \X (1..MaxItems) :
                    /\ p[2] <= Len(hold[p[1]])
                    /\ hold[p[1]][p[2]].data = d})
    + Cardinality({x \in ordBuf : x.data = d})
    + Cardinality({n \in 1..Len(egress) : egress[n] = d})

\* C24 (SpecPipe): while the pipeline runs, every item that entered is in
\* exactly one place (one queue position, one worker's hands, the orderer
\* or the egress) and nothing else is anywhere; and a pose replica that
\* takes an item takes the head of the group's input queue and removes it,
\* while no other worker's hands change.
C24_EachItemOnce ==
    /\ [](isRunning =>
            /\ \A d \in 1..entered : Occurrences(d) = 1
            /\ \A k \in 1..Len(queues) : Len(queues[k]) <= capacity
            /\ \A i \in 1..Len(hold) : Len(hold[i]) <= MaxItems
            /\ Occurrences(0) = 0 /\ Occurrences(entered + 1) = 0)
    /\ [][\A i \in 1..Len(stages) :
            IsPoseReplica(i) /\ hold[i] = <<>> /\ hold'[i] # <<>>
                => /\ Queue(stages[i].queueIn) # <<>>
                   /\ hold'[i] = <<Head(Queue(stages[i].queueIn))>>
                   /\ queues' = QueuePop(stages[i].queueIn)
                   /\ \A j \in 1..Len(stages) : j # i => hold'[j] = hold[j]]_vars

\* C24: two pose replicas hold an item each while a third item waits in
\* the group's input queue.
C24_Witness ==
    /\ isRunning
    /\ \E i, j \in 1..Len(stages) :
          /\ i # j /\ IsPoseReplica(i) /\ IsPoseReplica(j)
          /\ hold[i] # <<>> /\ hold[j] # <<>>
          /\ Queue(stages[i].queueIn) # <<>>

\* C25 (SpecPlace): when one pose replica is registered, the items leave
\* the pipeline in the order in which they entered it, for every thread
\* placement of the stages and every interleaving of the worker threads.
C25_SingleReplicaKeepsOrder ==
    Cardinality(PoseReplicaStages) = 1 => InOrder(egress)

\* C25: with one pose replica and the user's post-processing worker on its
\* own thread, two items left while a third is still on its way.
C25_Witness ==
    /\ Cardinality(PoseReplicaStages) = 1
    /\ wrapper.mUserPostProcessingWs # <<>>
    /\ \E i \in 1..Len(stages) : stages[i].workers = wrapper.mUserPostProcessingWs
    /\ Len(egress) = 2
    /\ entered > 2

\* A step of the application's pushing thread, of its popping thread.
PushStep == (\E op \in PushOps : PushCall(op)) \/ PushWake
PopStep == (\E op \in PopOps : PopCall(op)) \/ PopWake

C27_OrdererAgreesAtRestart ==
    [][~isRunning /\ isRunning' /\ Len(wrapper.spWPoses) > 1
          => ordNext' = idCounter' /\ ordBuf' = {}]_vars

\* C28 (SpecOrder), as stated: the orderer never holds back more items
\* than pose replicas are registered.
C28_HoldBufferWithinGroupSize ==
    Cardinality(ordBuf) <= Cardinality(PoseReplicaStages)

\* C28 (SpecOrder), amended: in the first run after configure(), the
\* orderer holds back only items whose ids lie strictly between the id it
\* expects next and the number of ids given out, each id once; so it holds
\* fewer items than ids were given out past the expected one.
C28_HoldBufferWithinIdsGivenOut ==
    /\ \A x \in ordBuf : ordNext < x.id /\ x.id < idCounter
    /\ \A x, y \in ordBuf : x.id = y.id => x = y
    /\ ordBuf # {} => Cardinality(ordBuf) <= idCounter - ordNext - 1

\* C28: with two pose replicas, one keeps the item the orderer expects
\* while three later items are held back.
C28_Witness ==
    /\ isRunning
    /\ Cardinality(PoseReplicaStages) = 2
    /\ Cardinality(ordBuf) = 3
    /\ \E i \in PoseReplicaStages : hold[i] # <<>> /\ hold[i][1].id = ordNext

\* The GUI ended the run and nothing was called since.
GuiQuit == last = [op |-> "WGui", ret |-> "quit"]

Destroyed == last = Returned("~Wrapper", NoError)

\* The thread-id counter is 0 and the workers that reset() names are gone.
WorkersCleared(w) ==
    /\ w.mThreadId = 0
    /\ w.mUserInputWs = <<>> /\ w.mUserPostProcessingWs = <<>>
    /\ w.mUserOutputWs = <<>>
    /\ w.wDatumProducer = NULL
    /\ w.spWCvMatToOpInput = NULL /\ w.spWCvMatToOpOutput = NULL
    /\ w.spWPoses = <<>>
    /\ w.mPostProcessingWs = <<>> /\ w.mOutputWs = <<>>
    /\ w.spWGui = NULL

\* C30 (SpecDestroy): after reset(), from whatever state the Wrapper was in
\* (never started, start() failed, running with items in the queues and in
\* the workers' hands, stopped), the pipeline is stopped, the thread manager
\* has no stage and no queue, the thread-id counter is 0 and every worker
\* that configure() and the setWorker functions store is cleared, so that a
\* following start()/exec() throws at its first check and starts nothing.
C30_ResetClearsEverything ==
    /\ WorkersCleared(reset(wrapper))
    /\ Destroyed
         => /\ ~wrapperIsRunning
            /\ stages = <<>> /\ queues = <<>> /\ hold = <<>>
            /\ WorkersCleared(wrapper)
            /\ configureThreadManager(wrapper).err = "NotConfigured"
            /\ ~configureThreadManager(wrapper).reset

\* C30: a Wrapper with MaxGpu pose replicas and multi-threading disabled
\* was destroyed after items had entered its pipeline and before all of them
\* had left it.
C30_Witness ==
    /\ Destroyed
    /\ entered > Len(egress)
    /\ wrapper.spWIdGenerator # NULL
    /\ wrapper.mGpuNumber = MaxGpu
    /\ ~wrapper.mMultiThreadEnabled

\* A stage list without its thread ids: the worker list and the queue
\* indices of each stage.
StageShape(ss) ==
    [i \in 1..Len(ss) |->
        [workers |-> ss[i].workers, queueIn |-> ss[i].queueIn,
         queueOut |-> ss[i].queueOut]]

\* The Wrapper as it would be with multi-threading the other way round.
OtherThreading(w) == [w EXCEPT !.mMultiThreadEnabled = ~@]

\* C31 (SpecGraph), as stated, for the stage list: for every configuration
\* that passes the security checks, the stages start() registered (their
\* worker lists and queue indices) are the ones it would have registered
\* with multi-threading the other way round.
C31_SameStagesWithoutMultiThreading ==
    GraphBuilt /\ securityChecks(wrapper) = NoError
        => StageShape(stages) = StageShape(buildGraph(OtherThreading(wrapper)).stages)

\* C32 (SpecWrite), as stated: whatever the mode of the Wrapper and whether
\* or not it has a user output worker, configure() throws when it is given
\* frame repetition together with a writing option.
C32_FramesRepeatWithWritingRejected ==
    \A args \in WriteChoices :
        args.framesRepeat /\ savingSomething(args)
            => configure(wrapper, args).err # NoError

\* The stage of the user output worker: the last stage that holds exactly
\* the user output workers (the user's input and post-processing stages are
\* registered before it).
UserOutputStage ==
    CHOOSE i \in 1..Len(stages) :
        /\ stages[i].workers = wrapper.mUserOutputWs
        /\ \A j \in (i + 1)..Len(stages) : stages[j].workers # wrapper.mUserOutputWs

\* A graph was built that has a stage for a user output worker given with
\* workerOnNewThread = false.
UserOutputOnPriorThread ==
    /\ GraphBuilt
    /\ wrapper.mUserOutputWs # <<>>
    /\ ~wrapper.mUserOutputWsOnNewThread
    /\ \E i \in 1..Len(stages) : stages[i].workers = wrapper.mUserOutputWs

\* C33 (SpecGraph), as stated: in every graph built, with multi-threading
\* enabled or disabled, the stage of a user output worker given with
\* workerOnNewThread = false has the thread id of the stage registered
\* right before it, and mThreadId - 1 did not wrap below 0.
C33_UserOutputSharesPriorThread ==
    UserOutputOnPriorThread
        => /\ UserOutputStage > 1
           /\ stages[UserOutputStage].threadId = stages[UserOutputStage - 1].threadId
           /\ stages[UserOutputStage].threadId # UIntMax

\* The exceptions of the three security checks of configureThreadManager.
ValidationErrors == {"NotConfigured", "NeedOneProducer", "NoOutputSelected"}

\* C34 (Spec): a start() or exec() that throws at one of the security checks
\* leaves the thread manager as it was, whether it was running or not: the
\* same stages, queues and items, no new thread, isRunning() unchanged; the
\* Wrapper's members are untouched as well and the caller is not inside
\* exec().
C34_FailedValidationChangesNothing ==
    [][LaunchStep /\ last'.ret \in ValidationErrors
          => /\ UNCHANGED tmVars
             /\ wrapperIsRunning' = wrapperIsRunning
             /\ UNCHANGED <<wrapper, ordVars, capacity>>
             /\ ~inExec']_vars

\* C34: start() or exec() threw "No output selected." on a Wrapper whose
\* pipeline is running (its user output worker was taken away after the
\* start), and the pipeline still runs.
C34_Witness ==
    /\ last.op \in {"start", "exec"}
    /\ last.ret = "NoOutputSelected"
    /\ wrapperIsRunning
    /\ stages # <<>>
    /\ ~closed

\* The queue indices the stages of the graph use.
QueueIndices ==
    {stages[i].queueIn : i \in 1..Len(stages)}
        \cup {stages[i].queueOut : i \in 1..Len(stages)}

\* C35 (SpecGraph): in every graph configureThreadManager builds, in every
\* mode, each stage carries at least one worker, and the queue indices in
\* use are 0, 1, ... up to the largest one without a gap, whichever optional
\* stages were left out.
C35_NoEmptyStageNoSkippedQueue ==
    GraphBuilt =>
        /\ \A i \in 1..Len(stages) : stages[i].workers # <<>>
        /\ stages # <<>> => QueueIndices = 0..MaxQueueOut(stages)

\* C35: a started graph without post-processing, user post-processing and
\* output workers: the user output stage follows the pose stage directly
\* and reads the queue the pose stage writes.
C35_Witness ==
    /\ last = [op |-> "start", ret |-> "returned"]
    /\ wrapper.mPostProcessingWs = <<>>
    /\ wrapper.mUserPostProcessingWs = <<>>
    /\ wrapper.mOutputWs = <<>>
    /\ wrapper.mUserOutputWs # <<>>
    /\ Len(wrapper.spWPoses) = 1
    /\ Len(stages) = 3
    /\ stages[3].workers = wrapper.mUserOutputWs
    /\ stages[3].queueIn = stages[2].queueOut

\* A user worker list is empty or holds one worker that is not null.
AtMostOneWorker(ws) == ws = <<>> \/ (Len(ws) = 1 /\ ws[1] # NULL)

\* The call that returned last left list ws as a call named op does: empty
\* if it threw, holding one worker if it returned.
SetterOutcome(op, ws) ==
    last.op = op
        => /\ last.ret \in {"NullWorker", "returned"}
           /\ last.ret = "NullWorker" => ws = <<>>
           /\ last.ret = "returned" => Len(ws) = 1

\* C36 (SpecSet): after any sequence of setWorker calls each user worker
\* list holds at most one worker and never a null one; the list of the call
\* made last holds exactly one worker if the call returned, whatever it
\* held before, and is empty if the call threw on a null worker; a list
\* that is not empty has its workerOnNewThread flag assigned.
C36_UserWorkerListsWellFormed ==
    /\ AtMostOneWorker(wrapper.mUserInputWs)
    /\ AtMostOneWorker(wrapper.mUserPostProcessingWs)
    /\ AtMostOneWorker(wrapper.mUserOutputWs)
    /\ SetterOutcome("setWorkerInput", wrapper.mUserInputWs)
    /\ SetterOutcome("setWorkerPostProcessing", wrapper.mUserPostProcessingWs)
    /\ SetterOutcome("setWorkerOutput", wrapper.mUserOutputWs)
    /\ wrapper.mUserInputWs # <<>> => wrapper.mUserInputWsOnNewThread \in BOOLEAN
    /\ wrapper.mUserPostProcessingWs # <<>>
          => wrapper.mUserPostProcessingWsOnNewThread \in BOOLEAN
    /\ wrapper.mUserOutputWs # <<>> => wrapper.mUserOutputWsOnNewThread \in BOOLEAN

\* C36: setWorkerOutput threw on a null worker and left its list empty
\* after the other two lists had been given a worker each, the input list
\* the second of the two workers.
C36_Witness ==
    /\ last = [op |-> "setWorkerOutput", ret |-> "NullWorker"]
    /\ wrapper.mUserOutputWs = <<>>
    /\ wrapper.mUserInputWs = <<"OtherUserWorker">>
    /\ wrapper.mUserPostProcessingWs = <<"UserWorker">>

\* The thread ids of the graph: the thread manager runs one worker loop
\* for each of them.
ThreadIds == {stages[i].threadId : i \in 1..Len(stages)}

\* C37 (SpecRegraph): with multi-threading enabled, in every graph built, by
\* the first start() as by a later exec(), the thread ids in use are 0 to
\* K - 1 without a gap, K being the number of worker loops and the value
\* the thread-id counter ends at; the first stage is on thread 0; a pose
\* replica shares its thread id with no other replica, and with no stage at
\* all when there is more than one replica.
C37_ThreadIdsContiguousFromZero ==
    wrapper.mMultiThreadEnabled /\ stages # <<>>
        => /\ ThreadIds = 0..(Cardinality(ThreadIds) - 1)
           /\ wrapper.mThreadId = Cardinality(ThreadIds)
           /\ stages[1].threadId = 0
           /\ \A i \in PoseReplicaStages, j \in PoseReplicaStages :
                 i # j => stages[i].threadId # stages[j].threadId
           /\ Cardinality(PoseReplicaStages) > 1
                 => \A i \in PoseReplicaStages, j \in 1..Len(stages) :
                       i # j => stages[i].threadId # stages[j].threadId

\* C37: exec() built the graph again after a start() and a stop(): two pose
\* replicas on threads of their own between other stages, and the user
\* output worker on the thread of the stage before it.
C37_Witness ==
    /\ last = [op |-> "exec", ret |-> "running"]
    /\ wrapper.mMultiThreadEnabled
    /\ Cardinality(PoseReplicaStages) = 2
    /\ wrapper.mUserOutputWs # <<>>
    /\ ~wrapper.mUserOutputWsOnNewThread
    /\ Len(stages) > Cardinality(ThreadIds)

====
